---- MODULE Spec2Model ----
(***************************************************************************)
(* Interview-practice application: the server's interview lifecycle        *)
(* (server/routes/interviews.js), the answer collection                    *)
(* (server/routes/answers.js), the candidate's interview session           *)
(* (src/pages/Interview.tsx, src/context/InterviewContext.tsx) and the     *)
(* evaluation helpers of server/controllers/ai.js, and the AudioRecorder   *)
(* and AudioPlayer components (src/components).                            *)
(*                                                                         *)
(* The specifications share the module's variables:                        *)
(*   SpecServer   the interview routes (start, update, end)                *)
(*   SpecEval     createFallbackEvaluation applied to bounded transcripts  *)
(*   SpecExtract  the JSON extraction of evaluateAnswer on bounded texts   *)
(*   SpecSession  the candidate's session and the answers it persists      *)
(*   SpecTimer    the question countdown and its grace period              *)
(*   SpecAnswers  the answers routes called directly                       *)
(*   SpecProgress the session with its timers and a reload of the page     *)
(*   SpecSave     one run of handleSaveResponse, promise by promise        *)
(*   SpecAssemble saveAnswer applied to bounded arguments                  *)
(*   SpecFallback the evaluation step of saveAnswer, run again on the same *)
(*                answer                                                   *)
(*   SpecRecorder the AudioRecorder component and its microphone streams   *)
(*   SpecPlayer   the AudioPlayer component and its audio element          *)
(***************************************************************************)
EXTENDS Integers, Sequences, FiniteSets, TLC

VARIABLES
    \* ---- server: the one Interview document -----------------------------
    status,          \* Interview.status
    scheduledDate,   \* Interview.scheduledDate (a Date)
    scheduledTime,   \* Interview.scheduledTime ("HH:mm", kept as [h, m])
    duration,        \* Interview.duration, minutes
    lastResp,        \* the last response an interview route sent
    \* ---- createFallbackEvaluation ----------------------------------------
    evalIn,          \* its arguments (question, transcript, techStack, code)
    evalOut,         \* the object it returned
    \* ---- POST /ai/evaluate -----------------------------------------------
    aiReq,           \* the request and what the Cohere call gives for it
    aiResp,          \* the response sent
    \* ---- server: the Answer collection -----------------------------------
    serverAnswers,   \* the Answer documents, in insertion order
    \* ---- client: InterviewContext ----------------------------------------
    interviewAnswers,      \* currentInterview.answers
    \* ---- client: the Interview page --------------------------------------
    mounted,               \* the page is shown (FALSE after navigate)
    questions,             \* the shuffled question list
    currentQuestionIndex,
    isAnswering,
    showComplete,
    showCodeEditor,
    code,
    answeredQuestions,
    localAnswers,
    storedProgress,        \* interview-progress-<id> in session/localStorage
    lastOp,                \* what the last handler run did: requests, toasts
    \* ---- client: the timers of the Interview page ------------------------
    timeRemaining,
    autoSubmitCountdown,
    timerRef,              \* the countdown interval is running
    autoSubmitRef,         \* the grace interval is running
    effectTimer,           \* the setTimeout of the autoSubmitCountdown effect
    effectDeps,            \* the dependencies the effect last ran with
    \* ---- single calls, studied on their own ------------------------------
    answersResp,     \* the last call of an answers route and its response
    saveIn,          \* the arguments of a saveAnswer call and what it meets
    saveOut,         \* how that call ended
    saveRun,         \* one run of handleSaveResponse, promise by promise
    evalRuns,        \* the evaluations saveAnswer ended with, for one request
    \* ---- client: components, studied on their own ------------------------
    recorder,        \* an AudioRecorder and the media streams it opened
    player           \* an AudioPlayer

serverVars == <<status, scheduledDate, scheduledTime, duration, lastResp>>

evalVars == <<evalIn, evalOut>>

extractVars == <<aiReq, aiResp>>

answerVars == <<serverAnswers, interviewAnswers>>

pageVars == <<mounted, questions, currentQuestionIndex, isAnswering, showComplete,
              showCodeEditor, code, answeredQuestions, localAnswers, storedProgress,
              lastOp>>

timerVars == <<timeRemaining, autoSubmitCountdown, timerRef, autoSubmitRef,
               effectTimer, effectDeps>>

sessionVars == <<answerVars, pageVars, timerVars>>

callVars == <<answersResp, saveIn, saveOut, saveRun, evalRuns>>

componentVars == <<recorder, player>>

vars == <<serverVars, evalVars, extractVars, sessionVars, callVars, componentVars>>

-----------------------------------------------------------------------------
(* Bounds *)

\* how many minutes before the window opens / after it closes a call is tried
MaxSkew == 2

-----------------------------------------------------------------------------
(* Users: protect() puts the authenticated user in req.user *)

Candidate == "cand"
Users == {"cand", "other", "admin"}

RoleOf(u) == IF u = "admin" THEN "admin" ELSE "user"

-----------------------------------------------------------------------------
(* Interview.status: the schema's enum and default *)

Statuses == {"scheduled", "in-progress", "completed", "cancelled"}

DefaultStatus == "scheduled"

-----------------------------------------------------------------------------
(* JavaScript Date, as the start route uses it.                            *)
(* A Date is [valid, t]: t counts minutes from 2024-01-01T00:00; an        *)
(* Invalid Date has valid = FALSE and its time value is NaN.               *)

MkDate(t) == [valid |-> TRUE, t |-> t]

InvalidDate == [valid |-> FALSE, t |-> 0]

\* String(date): Date.prototype.toString,
\* "Mon Jan 01 2024 00:00:00 GMT+0000 (Coordinated Universal Time)"
DateToString(d) == [fmt |-> "toString", t |-> d.t]

\* `${head}T${time}`
TemplateT(head, time) == [head |-> head, time |-> time]

\* "HH:mm" as minutes
TimeMinutes(hm) == hm.h * 60 + hm.m

\* new Date(string): a date-time "YYYY-MM-DDTHH:mm" parses; the toString
\* form followed by "T10:00" does not (a word after the numbers of a legacy
\* date is rejected), and gives an Invalid Date.
DateParse(s) ==
    IF s.head.fmt = "isoDate"
        THEN MkDate(s.head.t + TimeMinutes(s.time))
        ELSE InvalidDate

\* new Date(d.getTime() + ms): NaN + ms is NaN
DatePlusMinutes(d, m) == IF d.valid THEN MkDate(d.t + m) ELSE InvalidDate

\* a < b and a > b on Dates: every comparison with NaN is false
DateLt(a, b) == a.valid /\ b.valid /\ a.t < b.t
DateGt(a, b) == a.valid /\ b.valid /\ a.t > b.t

\* interview.duration || 30
DurationOrDefault(d) == IF d = 0 THEN 30 ELSE d

-----------------------------------------------------------------------------
(* POST /interviews/:id/start *)

ScheduledStart(date, time) == DateParse(TemplateT(DateToString(date), time))

ScheduledEnd(date, time, dur) ==
    DatePlusMinutes(ScheduledStart(date, time), DurationOrDefault(dur))

\* the response of the start route and the status it leaves
StartResult(u, now, st, date, time, dur) ==
    IF u # Candidate
        THEN [code |-> 403, error |-> "Not authorized", status |-> st]
    ELSE IF DateLt(MkDate(now), ScheduledStart(date, time))
        THEN [code |-> 403, error |-> "Interview has not started yet.", status |-> st]
    ELSE IF DateGt(MkDate(now), ScheduledEnd(date, time, dur))
        THEN [code |-> 403, error |-> "Interview window has passed.", status |-> st]
    ELSE IF st # "scheduled"
        THEN [code |-> 400, error |-> "Interview cannot be started in current state.",
              status |-> st]
    ELSE [code |-> 200, error |-> "", status |-> "in-progress"]

\* the times a call is tried at: around the window scheduledDate+scheduledTime
WindowOpen == scheduledDate.t + TimeMinutes(scheduledTime)
WindowClose == WindowOpen + duration
Nows == (WindowOpen - MaxSkew) .. (WindowClose + MaxSkew)

StartInterview(u, now) ==
    LET r == StartResult(u, now, status, scheduledDate, scheduledTime, duration) IN
    /\ status' = r.status
    /\ lastResp' = [op |-> "start", caller |-> u, now |-> now, code |-> r.code,
                    error |-> r.error, before |-> status]
    /\ UNCHANGED <<scheduledDate, scheduledTime, duration>>

-----------------------------------------------------------------------------
(* PUT /interviews/:id *)

\* the status values a request body may carry: the enum and one outside it
BodyStatuses == Statuses \cup {"bogus"}

\* runValidators: the enum validator of the schema
ValidStatus(s) == s \in Statuses

\* the response of the update route and the status it leaves; the body is
\* {status: s} (a candidate's other keys are deleted, an admin's are kept)
UpdateResult(u, s, st) ==
    IF u # Candidate /\ RoleOf(u) # "admin"
        THEN [code |-> 403, error |-> "Not authorized to update this interview",
              status |-> st]
    ELSE IF ~ValidStatus(s)
        THEN [code |-> 400, error |-> "Validation failed", status |-> st]
    ELSE [code |-> 200, error |-> "", status |-> s]

UpdateInterview(u, s) ==
    LET r == UpdateResult(u, s, status) IN
    /\ status' = r.status
    /\ lastResp' = [op |-> "update", caller |-> u, now |-> 0, code |-> r.code,
                    error |-> r.error, before |-> status]
    /\ UNCHANGED <<scheduledDate, scheduledTime, duration>>

\* endInterview of the client: interviewAPI.update(id, {status: 'completed', ...})
EndInterviewBody == "completed"

EndInterview(u) ==
    LET r == UpdateResult(u, EndInterviewBody, status) IN
    /\ status' = r.status
    /\ lastResp' = [op |-> "end", caller |-> u, now |-> 0, code |-> r.code,
                    error |-> r.error, before |-> status]
    /\ UNCHANGED <<scheduledDate, scheduledTime, duration>>

-----------------------------------------------------------------------------
(* The server specification *)

ScheduledTimes == {[h |-> 10, m |-> 0], [h |-> 14, m |-> 30]}
Durations == {30, 45}

NoResp == [op |-> "none", caller |-> "none", now |-> 0, code |-> 0,
           error |-> "", before |-> DefaultStatus]

InitServerVars ==
    /\ status = DefaultStatus
    /\ scheduledDate = MkDate(0)
    /\ scheduledTime \in ScheduledTimes
    /\ duration \in Durations
    /\ lastResp = NoResp

\* no evaluation has been asked for
NoEval == [called |-> FALSE]

IdleEvalVars == evalIn = NoEval /\ evalOut = NoEval

IdleExtractVars == aiReq = NoEval /\ aiResp = NoEval

\* the interview as the other specifications start from it
IdleServerVars ==
    /\ status = DefaultStatus
    /\ scheduledDate = MkDate(0)
    /\ scheduledTime = [h |-> 10, m |-> 0]
    /\ duration = DurationOrDefault(0)
    /\ lastResp = NoResp

\* the question countdown, in seconds
MAX_QUESTION_TIME == 120

\* no handler has run
NoOp == [op |-> "none", question |-> 0, requests |-> <<>>, toasts |-> <<>>]

\* storage holds no progress entry
NoProgress == [questionIndex |-> 0, answeredQuestions |-> {}, stored |-> FALSE]

\* no session: the Interview page is not open and no Answer exists
IdleSessionVars ==
    /\ serverAnswers = <<>> /\ interviewAnswers = <<>>
    /\ mounted = FALSE /\ questions = <<>> /\ currentQuestionIndex = 0
    /\ isAnswering = FALSE /\ showComplete = FALSE /\ showCodeEditor = FALSE
    /\ code = "" /\ answeredQuestions = {} /\ localAnswers = <<>>
    /\ storedProgress = NoProgress /\ lastOp = NoOp
    /\ timeRemaining = MAX_QUESTION_TIME /\ autoSubmitCountdown = 0
    /\ timerRef = FALSE /\ autoSubmitRef = FALSE
    /\ effectTimer = "none"
    /\ effectDeps = <<0, FALSE, MAX_QUESTION_TIME>>

\* no call is being studied
NoCall == [called |-> FALSE]

IdleCallVars ==
    /\ answersResp = NoCall /\ saveIn = NoCall /\ saveOut = NoCall
    /\ saveRun = NoCall /\ evalRuns = <<>>

\* no component is rendered
Unmounted == [mounted |-> FALSE]

IdleComponentVars == recorder = Unmounted /\ player = Unmounted

InitServer ==
    InitServerVars /\ IdleEvalVars /\ IdleExtractVars /\ IdleSessionVars
        /\ IdleCallVars /\ IdleComponentVars

NextServer ==
    /\ \/ \E u \in Users, now \in Nows : StartInterview(u, now)
       \/ \E u \in Users, s \in BodyStatuses : UpdateInterview(u, s)
       \/ \E u \in Users : EndInterview(u)
    /\ UNCHANGED <<evalVars, extractVars, sessionVars, callVars, componentVars>>

SpecServer == InitServer /\ [][NextServer]_vars

-----------------------------------------------------------------------------
(* Text, as createFallbackEvaluation reads it.                             *)
(* A string is a sequence of tokens: a word (a maximal run of word         *)
(* characters) or one white-space character, SP or NL.                     *)

SP == " "
NL == "\n"

IsSpace(tok) == tok \in {SP, NL}

\* String.prototype.toLowerCase, token by token
ToLowerCase(tok) ==
    CASE tok = "Hello" -> "hello"
      [] tok = "React" -> "react"
      [] tok = "JavaScript" -> "javascript"
      [] tok = "Explain" -> "explain"
      [] tok = "What" -> "what"
      [] tok = "Describe" -> "describe"
      [] OTHER -> tok

LowerText(toks) == [i \in 1..Len(toks) |-> ToLowerCase(toks[i])]

\* string.length
RECURSIVE TextLength(_)
TextLength(toks) ==
    IF toks = <<>> THEN 0 ELSE Len(Head(toks)) + TextLength(Tail(toks))

\* a lower-case word of the vocabulary contains the word k
WordIncludes(w, k) ==
    \/ w = k
    \/ <<w, k>> \in {<<"javascript", "java">>, <<"contest", "test">>,
                     <<"testing", "test">>, <<"components", "component">>,
                     <<"examples", "example">>}

\* String.prototype.includes(k) for a keyword k given as its tokens; a
\* keyword of one word is looked for inside each word, a keyword of several
\* words as the same run of tokens
Includes(toks, k) ==
    IF Len(k) = 1
        THEN \E i \in 1..Len(toks) : WordIncludes(toks[i], k[1])
        ELSE \E i \in 1..Len(toks) :
                /\ i + Len(k) - 1 <= Len(toks)
                /\ SubSeq(toks, i, i + Len(k) - 1) = k

\* normalizedTranscript.split(/\s+/).filter(w => w.length > 0).length
wordCount(normalizedTranscript) ==
    Len(SelectSeq(normalizedTranscript, LAMBDA tok : ~IsSpace(tok)))

\* index of the first token at or after i that is not white space
RECURSIVE SkipSpace(_, _)
SkipSpace(toks, i) ==
    IF i <= Len(toks) /\ IsSpace(toks[i]) THEN SkipSpace(toks, i + 1) ELSE i

\* the alternation (hi|hello|hey|greetings|my name is)\b at token i: the
\* index after it, or 0 when it does not match there
GreetingEnd(toks, i) ==
    IF i <= Len(toks) /\ toks[i] \in {"hi", "hello", "hey", "greetings"}
        THEN i + 1
    ELSE IF i + 4 <= Len(toks)
            /\ SubSeq(toks, i, i + 4) = <<"my", SP, "name", SP, "is">>
        THEN i + 5
    ELSE 0

\* normalizedTranscript.match(/^\s*(hi|hello|hey|greetings|my name is)\b.*?$/i):
\* without the s and m flags "." stops at a line terminator and "$" is the
\* end of the input, so nothing after the greeting may be a line break
isJustGreeting(normalizedTranscript) ==
    LET e == GreetingEnd(normalizedTranscript, SkipSpace(normalizedTranscript, 1)) IN
    /\ e # 0
    /\ \A j \in e..Len(normalizedTranscript) : normalizedTranscript[j] # NL

isVeryShort(normalizedTranscript) == wordCount(normalizedTranscript) < 20

isTesting(normalizedTranscript) ==
    \/ Includes(normalizedTranscript, <<"testing">>)
    \/ Includes(normalizedTranscript, <<"test">>)

-----------------------------------------------------------------------------
(* The keyword lists of createFallbackEvaluation *)

ReactKeywords ==
    <<<<"component">>, <<"jsx">>, <<"virtual", SP, "dom">>, <<"state">>,
      <<"props">>, <<"hooks">>, <<"lifecycle">>, <<"render">>>>
NodeKeywords ==
    <<<<"event", SP, "loop">>, <<"callback">>, <<"async">>, <<"express">>,
      <<"middleware">>, <<"server">>>>
PythonKeywords ==
    <<<<"list">>, <<"tuple">>, <<"dictionary">>, <<"class">>, <<"function">>,
      <<"django">>, <<"flask">>>>
JavaKeywords ==
    <<<<"class">>, <<"interface">>, <<"inheritance">>, <<"polymorphism">>,
      <<"spring">>>>

questionKeywords(questionLower) ==
    IF Includes(questionLower, <<"react">>) THEN ReactKeywords
    ELSE IF Includes(questionLower, <<"node">>) THEN NodeKeywords
    ELSE IF Includes(questionLower, <<"python">>) THEN PythonKeywords
    ELSE IF Includes(questionLower, <<"java">>) THEN JavaKeywords
    ELSE <<>>

generalKeywords ==
    <<<<"algorithm">>, <<"performance">>, <<"optimization">>, <<"design">>,
      <<"pattern">>, <<"architecture">>, <<"framework">>, <<"library">>,
      <<"function">>, <<"method">>>>

\* the tech stack lists are shorter than the question lists: no 'hooks'
\* tail for react ('lifecycle', 'render') and no 'server' for node
techStackKeywords(techStack) ==
    IF techStack = <<>> THEN <<>>
    ELSE LET ts == LowerText(techStack) IN
        (IF Includes(ts, <<"react">>) THEN SubSeq(ReactKeywords, 1, 6) ELSE <<>>)
        \o (IF Includes(ts, <<"node">>) THEN SubSeq(NodeKeywords, 1, 5) ELSE <<>>)
        \o (IF Includes(ts, <<"python">>) THEN PythonKeywords ELSE <<>>)
        \o (IF Includes(ts, <<"java">>) THEN JavaKeywords ELSE <<>>)

keywords(question, techStack) ==
    questionKeywords(LowerText(question)) \o techStackKeywords(techStack)
        \o generalKeywords

\* list.filter(keyword => text.includes(keyword)).length
KeywordCount(list, text) ==
    Len(SelectSeq(list, LAMBDA k : Includes(text, k)))

-----------------------------------------------------------------------------
(* Numbers of createFallbackEvaluation: the intermediate scores are exact  *)
(* fractions [n, d]; what it returns is counted in tenths.                 *)

RECURSIVE GCD(_, _)
GCD(a, b) == IF b = 0 THEN a ELSE GCD(b, a % b)

\* n / d, in lowest terms
Rat(n, d) == [n |-> n \div GCD(n, d), d |-> d \div GCD(n, d)]

RatMin(a, b) == IF a.n * b.d <= b.n * a.d THEN a ELSE b

RatAdd(a, b) == Rat(a.n * b.d + b.n * a.d, a.d * b.d)

\* a * p / q
RatTimes(a, p, q) == Rat(a.n * p, a.d * q)

\* Math.round(r * 10) / 10, in tenths (Math.round rounds a half up)
RoundTenths(r) == (20 * r.n + r.d) \div (2 * r.d)

\* the number k, in tenths
Num(k) == 10 * k

MinInt(a, b) == IF a <= b THEN a ELSE b

relevanceScore(qk, questionKeywordCount) ==
    IF Len(qk) > 0
        THEN RatMin(Rat(10, 1), Rat(questionKeywordCount * 10, Len(qk)))
        ELSE Rat(5, 1)

keywordScore(totalKeywordCount) ==
    RatMin(Rat(10, 1), Rat(totalKeywordCount * 10, 8))

transcriptLengthScore(transcriptLength) ==
    RatMin(Rat(10, 1), Rat(transcriptLength * 10, 500))

codeLengthScore(codeLength) ==
    RatMin(Rat(10, 1), Rat(codeLength * 10, 200))

lengthScore(transcript, codeText) ==
    IF transcript # <<>> /\ codeText # <<>>
        THEN RatAdd(RatTimes(transcriptLengthScore(TextLength(transcript)), 6, 10),
                    RatTimes(codeLengthScore(TextLength(codeText)), 4, 10))
    ELSE IF transcript # <<>> THEN transcriptLengthScore(TextLength(transcript))
    ELSE IF codeText # <<>> THEN codeLengthScore(TextLength(codeText))
    ELSE Rat(0, 1)

-----------------------------------------------------------------------------
(* createFallbackEvaluation(question, transcript, techStack, code) *)

PenaltyReason(normalizedTranscript) ==
    IF isJustGreeting(normalizedTranscript) THEN "just a greeting"
    ELSE IF isTesting(normalizedTranscript) THEN "just a test message"
    ELSE "too short"

createFallbackEvaluation(question, transcript, techStack, codeText) ==
    LET normalizedTranscript == LowerText(transcript)
        normalizedCode == LowerText(codeText)
        qk == questionKeywords(LowerText(question))
        all == keywords(question, techStack)
        questionKeywordCount ==
            Len(SelectSeq(qk, LAMBDA k : \/ Includes(normalizedTranscript, k)
                                         \/ Includes(normalizedCode, k)))
        transcriptKeywordCount == KeywordCount(all, normalizedTranscript)
        codeKeywordCount == KeywordCount(all, normalizedCode)
        rel == relevanceScore(qk, questionKeywordCount)
        kw == keywordScore(transcriptKeywordCount + codeKeywordCount)
        len == lengthScore(transcript, codeText)
        score == RoundTenths(RatAdd(RatAdd(RatTimes(rel, 5, 10), RatTimes(kw, 3, 10)),
                                    RatTimes(len, 2, 10)))
    IN  IF \/ isJustGreeting(normalizedTranscript)
           \/ isVeryShort(normalizedTranscript)
           \/ isTesting(normalizedTranscript)
        THEN [called |-> TRUE, score |-> Num(1),
              feedback |-> PenaltyReason(normalizedTranscript),
              criteria |-> [technicalAccuracy |-> Num(1), completeness |-> Num(1),
                            clarity |-> Num(1), examples |-> Num(1)]]
        ELSE [called |-> TRUE, score |-> MinInt(Num(10), score),
              feedback |-> "fallback system",
              criteria |->
                [technicalAccuracy |-> RoundTenths(rel),
                 completeness |-> RoundTenths(kw),
                 clarity |-> IF transcript # <<>>
                                THEN MinInt(wordCount(normalizedTranscript), Num(10))
                                ELSE Num(3),
                 examples |-> IF \/ Includes(normalizedTranscript, <<"example">>)
                                 \/ TextLength(normalizedCode) > 50
                                THEN Num(7) ELSE Num(3)]]

-----------------------------------------------------------------------------
(* The evaluator specification: createFallbackEvaluation on bounded inputs *)

\* the longest run of filler words of a transcript
MaxWords == 21

\* n words w, each after one white-space character; the nl-th of these
\* characters is a line break
RECURSIVE Fill(_, _, _)
Fill(n, w, nl) ==
    IF n = 0 THEN <<>>
    ELSE Fill(n - 1, w, nl) \o <<(IF n = nl THEN NL ELSE SP), w>>

Openers ==
    {<<"hi">>, <<"Hello">>, <<"hey">>, <<"greetings">>,
     <<"my", SP, "name", SP, "is">>, <<"history">>, <<"the">>, <<>>}

Fillers == {"component", "contest", "example"}

Transcripts ==
    {lead \o opener \o Fill(n, w, nl) :
        lead \in {<<>>, <<SP>>}, opener \in Openers, n \in 0..MaxWords,
        w \in Fillers, nl \in {0, 1, MaxWords - 1}}

EvalQuestions ==
    {<<"Explain", SP, "React", SP, "hooks">>, <<"What", SP, "is", SP, "JavaScript">>,
     <<"Describe", SP, "yourself">>}

TechStacks == {<<>>, <<"React">>}

Codes == {<<>>, <<"class", SP, "component">>, <<"render">> \o Fill(6, "component", 3)}

InitEval ==
    /\ evalIn \in [called : {TRUE}, question : EvalQuestions, transcript : Transcripts,
                   techStack : TechStacks, code : Codes]
    /\ evalOut = NoEval
    /\ IdleServerVars /\ IdleExtractVars /\ IdleSessionVars /\ IdleCallVars
    /\ IdleComponentVars

Evaluate ==
    /\ ~evalOut.called
    /\ evalOut' = createFallbackEvaluation(evalIn.question, evalIn.transcript,
                                           evalIn.techStack, evalIn.code)
    /\ UNCHANGED evalIn

NextEval ==
    Evaluate
        /\ UNCHANGED <<serverVars, extractVars, sessionVars, callVars, componentVars>>

SpecEval == InitEval /\ [][NextEval]_vars

-----------------------------------------------------------------------------
(* POST /ai/evaluate: the text the model generated, and JSON.              *)
(* A generated text is a sequence of tokens: "{", "}", white space, a run  *)
(* of prose, and two kinds of JSON members:                                *)
(*   "sf8", "sf3"   "score": 8 (or 3), "feedback": "prose", "criteria":    *)
(*   "cr"           "technicalAccuracy": 7, "completeness": 6,             *)
(*                  "clarity": 9, "examples": 4                            *)

ScoreMembers == {"sf8", "sf3"}

TextTokens == {"{", "}", SP, "prose", "cr"} \cup ScoreMembers

ScoreOf(tok) == IF tok = "sf8" THEN 8 ELSE 3

CriteriaMembers ==
    [technicalAccuracy |-> 7, completeness |-> 6, clarity |-> 9, examples |-> 4]

\* a regular expression that stops at the first "}" rather than the last
JsonMatchLazy(generatedText) ==
    LET opens == {i \in 1..Len(generatedText) : generatedText[i] = "{"}
        first == CHOOSE i \in opens : \A j \in opens : i <= j
        closes == {i \in 1..Len(generatedText) : generatedText[i] = "}" /\ i > first}
    IN  IF opens = {} \/ closes = {} THEN <<>>
        ELSE SubSeq(generatedText, first, CHOOSE i \in closes : \A j \in closes : i <= j)

\* generatedText.match(/{[\s\S]*}/g)[0]: from the first "{" to the last "}"
\* of the text; <<>> stands for null, no match
JsonMatch(generatedText) ==
    LET opens == {i \in 1..Len(generatedText) : generatedText[i] = "{"}
        first == CHOOSE i \in opens : \A j \in opens : i <= j
        closes == {i \in 1..Len(generatedText) : generatedText[i] = "}" /\ i > first}
    IN  IF opens = {} \/ closes = {} THEN <<>>
        ELSE SubSeq(generatedText, first, CHOOSE i \in closes : \A j \in closes : j <= i)

ParseError == [ok |-> FALSE, next |-> 0, value |-> <<>>]

\* a JSON object starting at token i: {} or { cr } or { sf <object> }
RECURSIVE ParseObject(_, _)
ParseObject(toks, i) ==
    IF i > Len(toks) \/ toks[i] # "{" THEN ParseError
    ELSE LET j == SkipSpace(toks, i + 1) IN
        IF j > Len(toks) THEN ParseError
        ELSE IF toks[j] = "}" THEN [ok |-> TRUE, next |-> j + 1, value |-> <<>>]
        ELSE IF toks[j] = "cr" THEN
            LET k == SkipSpace(toks, j + 1) IN
            IF k <= Len(toks) /\ toks[k] = "}"
                THEN [ok |-> TRUE, next |-> k + 1, value |-> CriteriaMembers]
                ELSE ParseError
        ELSE IF toks[j] \in ScoreMembers THEN
            LET inner == ParseObject(toks, SkipSpace(toks, j + 1))
                k == SkipSpace(toks, inner.next)
            IN  IF inner.ok /\ k <= Len(toks) /\ toks[k] = "}"
                    THEN [ok |-> TRUE, next |-> k + 1,
                          value |-> [score |-> ScoreOf(toks[j]),
                                     feedback |-> <<"prose">>,
                                     criteria |-> inner.value]]
                    ELSE ParseError
        ELSE ParseError

\* JSON.parse(text): the value, or a SyntaxError (ok = FALSE)
JSONParse(toks) ==
    LET r == ParseObject(toks, SkipSpace(toks, 1)) IN
    IF r.ok /\ SkipSpace(toks, r.next) = Len(toks) + 1 THEN r ELSE ParseError

\* the structured response built from the text when no JSON can be read
TextEvaluation(generatedText) ==
    [score |-> 5, feedback |-> generatedText,
     criteria |-> [technicalAccuracy |-> 5, completeness |-> 5, clarity |-> 5,
                   examples |-> 5]]

evaluationResponse(generatedText) ==
    LET jsonMatch == JsonMatch(generatedText) IN
    IF jsonMatch # <<>>
        THEN IF JSONParse(jsonMatch).ok THEN JSONParse(jsonMatch).value
             ELSE TextEvaluation(generatedText)
        ELSE TextEvaluation(generatedText)

AiError(httpCode, message) ==
    [called |-> TRUE, code |-> httpCode, error |-> message, data |-> <<>>,
     evaluationMethod |-> "none"]

\* the response of evaluateAnswer to a request
evaluateAnswer(req) ==
    IF ~req.question \/ ~req.answer
        THEN AiError(400, "Please provide question and either transcript or code")
    ELSE IF ~req.key
        THEN AiError(500, "Cohere API key is not configured")
    ELSE IF ~req.generated
        THEN AiError(500, "Cohere AI evaluation failed")
    ELSE [called |-> TRUE, code |-> 200, error |-> "",
          data |-> evaluationResponse(req.text), evaluationMethod |-> "cohere"]

-----------------------------------------------------------------------------
(* The extraction specification: evaluateAnswer on bounded generated texts *)

\* the longest generated text, in tokens
MaxText == 7

Texts == UNION {[1..n -> TextTokens] : n \in 0..MaxText}

\* requests: body with or without a question and an answer, server with or
\* without an API key, Cohere call that fails or generates a text
AiRequests ==
    {[called |-> TRUE, question |-> TRUE, answer |-> TRUE, key |-> TRUE,
      generated |-> TRUE, text |-> t] : t \in Texts}
    \cup
    {r \in [called : {TRUE}, question : BOOLEAN, answer : BOOLEAN, key : BOOLEAN,
            generated : BOOLEAN, text : {<<>>}] :
        ~(r.question /\ r.answer /\ r.key /\ r.generated)}

InitExtract ==
    /\ aiReq \in AiRequests
    /\ aiResp = NoEval
    /\ IdleServerVars /\ IdleEvalVars /\ IdleSessionVars /\ IdleCallVars
    /\ IdleComponentVars

EvaluateAnswer ==
    /\ ~aiResp.called
    /\ aiResp' = evaluateAnswer(aiReq)
    /\ UNCHANGED aiReq

NextExtract ==
    EvaluateAnswer
        /\ UNCHANGED <<serverVars, evalVars, sessionVars, callVars, componentVars>>

SpecExtract == InitExtract /\ [][NextExtract]_vars

-----------------------------------------------------------------------------
(* Answers.                                                                *)
(* A transcript is "" or one of three texts; a score is "null", "0", "5",  *)
(* "eval" (what the model answered) or "mock" (mockEvaluateAnswer, a       *)
(* random 6..10).                                                          *)

\* the number of questions of the interview
NumQuestions == 2

\* calls of saveAnswer in one session
MaxSaves == 1

QuestionIds == 1..NumQuestions

\* the orders Array.sort(() => Math.random() - 0.5) can leave the list in
Shuffles ==
    {q \in [1..NumQuestions -> QuestionIds] :
        \A i, j \in 1..NumQuestions : q[i] = q[j] => i = j}

\* what the candidate said, as the speech recognition heard it
Spoken == "a spoken answer of a dozen words"

\* AudioRecorder: latestTranscriptRef.current || "[TRANSCRIPT FROM ...]"
NotAvailable == "[TRANSCRIPT FROM WEB SPEECH API NOT AVAILABLE]"

TranscriptionFailed == "[TRANSCRIPTION FAILED]"

RecorderTranscripts == {Spoken, NotAvailable}

\* text.trim().split(/\s+/).length
TrimmedWords(text) ==
    CASE text = "" -> 1
      [] text = Spoken -> 12
      [] text = NotAvailable -> 8
      [] OTHER -> 13

\* one network request of the client and whether it succeeded
Req(name, q, ok) == [req |-> name, question |-> q, ok |-> ok]

-----------------------------------------------------------------------------
(* POST /answers and POST /answers/batch *)

\* the session's user is the interview's candidate
SessionUser == Candidate

\* the document of a request body: an undefined audioUrl is not sent
Doc(body) == [body EXCEPT !.audioUrl = IF @ = "undefined" THEN "" ELSE @]

\* router.post('/'): Answer.create(req.body) for the candidate or an admin
PostAnswer(u, body, answers) ==
    IF u # Candidate /\ RoleOf(u) # "admin"
        THEN [code |-> 403, answers |-> answers]
        ELSE [code |-> 201, answers |-> Append(answers, Doc(body))]

\* an update that inserts a document whether or not the question has one
UpsertAlwaysInserts(answers, ans) == Append(answers, Doc(ans))

\* findOneAndUpdate({interview, question}, ans, {upsert: true}): the first
\* document of the question takes the fields of ans, or ans is inserted
Upsert(answers, ans) ==
    LET hits == {i \in 1..Len(answers) : answers[i].question = ans.question} IN
        IF hits = {} THEN Append(answers, Doc(ans))
        ELSE LET i == CHOOSE h \in hits : \A k \in hits : h <= k IN
             [answers EXCEPT ![i] =
                [ans EXCEPT !.audioUrl = IF @ = "undefined" THEN answers[i].audioUrl
                                         ELSE @]]

\* router.put('/:id'): an admin updates the score, the candidate audioUrl,
\* transcript and code of document i; every other field of the body is
\* deleted, and any other caller gets 403
PutAnswer(u, body, answers, i) ==
    IF RoleOf(u) = "admin"
        THEN [code |-> 200,
              answers |-> [answers EXCEPT ![i].score = body.score]]
    ELSE IF u = Candidate
        THEN [code |-> 200,
              answers |-> [answers EXCEPT
                            ![i].audioUrl = IF body.audioUrl = "undefined"
                                            THEN @ ELSE body.audioUrl,
                            ![i].transcript = body.transcript,
                            ![i].code = body.code]]
    ELSE [code |-> 403, answers |-> answers]

\* router.post('/batch'): one upsert per element, no check of the caller
RECURSIVE PostBatch(_, _)
PostBatch(bodies, answers) ==
    IF bodies = <<>> THEN answers
    ELSE PostBatch(Tail(bodies), Upsert(answers, Head(bodies)))

-----------------------------------------------------------------------------
(* InterviewContext.saveAnswer(interviewId, questionId, audioBlob,         *)
(* transcript, code).  net holds what the requests of one save meet:       *)
(* upload and evaluate, whether the upload and the evaluation service      *)
(* answer during this save; transcribe in {"text", "none", "failed"}       *)
(* ("none": a response without text); create, whether POST /answers gets   *)
(* through; useFreeMode, where the call is studied in both modes.          *)

Transcriptions == {"text", "none", "failed"}

\* useState<boolean>(true): free mode unless the toggle was switched; the
\* session specifications keep the default
FreeMode(net) == IF "useFreeMode" \in DOMAIN net THEN net.useFreeMode ELSE TRUE

\* the transcription step: a response without text leaves the transcript
\* as it is in free mode and throws into the catch in paid mode; the catch
\* sets the failure marker
finalTranscript(transcript, net) ==
    IF transcript # "" THEN transcript
    ELSE CASE net.transcribe = "text" -> Spoken
           [] net.transcribe = "none" ->
                IF FreeMode(net) THEN "" ELSE TranscriptionFailed
           [] OTHER -> TranscriptionFailed

\* POST /ai/evaluate answers 400 without a transcript and without code
EvaluateOk(transcript, codeText, reachable) ==
    reachable /\ evaluateAnswer([question |-> TRUE,
                                 answer |-> (transcript # "" \/ codeText # ""),
                                 key |-> TRUE, generated |-> TRUE,
                                 text |-> <<>>]).code = 200

\* an update of local state that is dropped when the server did not store
updatedAnswersIfStored(answers, answer, stored) ==
    IF stored THEN Append(answers, answer) ELSE answers

\* updatedInterview = {...interview, answers: [...interview.answers, answer]},
\* given to setInterviews and setCurrentInterview after the try/catch of the
\* upload and the create, whatever they met
updatedAnswers(answers, answer, stored) == Append(answers, answer)

saveAnswer(questionId, transcript, codeText, net) ==
    LET final == finalTranscript(transcript, net)
        evaluated == EvaluateOk(final, codeText, net.evaluate)
        score == IF evaluated THEN "eval" ELSE "mock"
        body == [question |-> questionId, transcript |-> final, audioUrl |-> "url",
                 code |-> codeText, score |-> score]
        stored == net.upload /\ net.create
    IN  [requests |->
            (IF transcript = ""
                THEN <<Req("transcribe", questionId, net.transcribe # "failed")>>
                ELSE <<>>)
            \o <<Req("evaluate", questionId, evaluated),
                 Req("upload", questionId, net.upload)>>
            \o (IF net.upload THEN <<Req("create", questionId, net.create)>>
                ELSE <<>>),
         toasts |->
            (IF transcript = "" /\ final = TranscriptionFailed
                THEN <<"Transcription failed. Check error logs for details.">>
                ELSE <<>>)
            \o (IF TrimmedWords(final) < 5 /\ final # TranscriptionFailed
                THEN <<"Your answer is too short or incomplete.">> ELSE <<>>)
            \o (IF evaluated THEN <<>>
                ELSE <<"Evaluation failed, using backup method">>)
            \o (IF stored THEN <<>>
                ELSE <<"Answer saved locally but failed to store on server">>),
         created |-> IF net.upload THEN <<body>> ELSE <<>>,
         stored |-> stored,
         answer |-> [questionId |-> questionId, transcript |-> final,
                     code |-> codeText, score |-> score]]

-----------------------------------------------------------------------------
(* The Interview page: state helpers *)

\* the grace countdown started when the question countdown reaches 0
GraceSeconds == 5

\* questions[currentQuestionIndex]
currentQuestion == questions[currentQuestionIndex + 1]

LastIndex == NumQuestions - 1

\* what the code editor may hold
EditorCodes == {"", "function answer() {}"}

\* prev.filter(a => a.questionId !== id) followed by the new entry
ReplaceAnswer(answers, a) ==
    SelectSeq(answers, LAMBDA x : x.questionId # a.questionId) \o <<a>>

\* localAnswers.find(a => a.questionId === q), or an entry with nothing in it
ExistingAnswer(q) ==
    LET found == SelectSeq(localAnswers, LAMBDA x : x.questionId = q) IN
    IF found # <<>> THEN found[1]
    ELSE [questionId |-> q, audioBlob |-> "none", transcript |-> "", code |-> "",
          score |-> "null"]

\* a mark that forgets the questions marked before
MarkOnlyThis(answered, q) == {q}

\* setAnsweredQuestions(prev => { const newSet = new Set(prev);
\* newSet.add(currentQuestion.id); return newSet })
MarkAnswered(answered, q) == answered \cup {q}

\* the save-progress effect, and the handlers' own writes of the same entry
Progress(index, answered) ==
    [questionIndex |-> index, answeredQuestions |-> answered, stored |-> TRUE]

Op(name, q, requests, toasts) ==
    [op |-> name, question |-> q, requests |-> requests, toasts |-> toasts]

\* the dependencies of the autoSubmitCountdown effect
Deps == <<autoSubmitCountdown, isAnswering, timeRemaining>>

\* the rendered state is committed and its effects have run
Settled == Deps = effectDeps /\ effectTimer # "due"

\* the effect body's timer: armed while the countdown is within 1..5
EffectTimerFor(countdown) ==
    IF countdown > 0 /\ countdown <= GraceSeconds THEN "armed" ELSE "none"

-----------------------------------------------------------------------------
(* The Interview page: what the candidate does while a question is open *)

handleStartAnswering ==
    /\ mounted /\ ~showComplete /\ ~isAnswering /\ Settled
    /\ timeRemaining' = MAX_QUESTION_TIME
    /\ isAnswering' = TRUE
    /\ timerRef' = TRUE
    /\ effectDeps' = <<autoSubmitCountdown, TRUE, MAX_QUESTION_TIME>>
    /\ effectTimer' = EffectTimerFor(autoSubmitCountdown)
    /\ lastOp' = Op("handleStartAnswering", currentQuestion, <<>>, <<>>)
    /\ UNCHANGED <<mounted, questions, currentQuestionIndex, showComplete,
                   showCodeEditor, code, answeredQuestions, localAnswers,
                   storedProgress, autoSubmitCountdown, autoSubmitRef>>
    /\ UNCHANGED <<answerVars, serverVars>>

\* the AudioRecorder's onRecordingComplete(audioBlob, transcript): the
\* recording is kept in localAnswers and nothing else happens
onRecordingComplete(transcript) ==
    /\ mounted /\ isAnswering /\ ~showComplete
    /\ localAnswers' = ReplaceAnswer(localAnswers,
            [questionId |-> currentQuestion, audioBlob |-> "recording",
             transcript |-> transcript,
             code |-> IF showCodeEditor THEN code ELSE "", score |-> "null"])
    /\ lastOp' = Op("onRecordingComplete", currentQuestion, <<>>, <<>>)
    /\ UNCHANGED <<mounted, questions, currentQuestionIndex, isAnswering,
                   showComplete, showCodeEditor, code, answeredQuestions,
                   storedProgress>>
    /\ UNCHANGED <<timerVars, answerVars, serverVars>>

\* the Show/Hide Code Editor button
toggleCodeEditor ==
    /\ mounted /\ isAnswering /\ ~showComplete
    /\ showCodeEditor' = ~showCodeEditor
    /\ lastOp' = Op("toggleCodeEditor", currentQuestion, <<>>, <<>>)
    /\ UNCHANGED <<mounted, questions, currentQuestionIndex, isAnswering,
                   showComplete, code, answeredQuestions, localAnswers,
                   storedProgress>>
    /\ UNCHANGED <<timerVars, answerVars, serverVars>>

\* CodeEditor onChange={setCode}
setCode(value) ==
    /\ mounted /\ isAnswering /\ ~showComplete /\ showCodeEditor
    /\ value # code
    /\ code' = value
    /\ lastOp' = Op("setCode", currentQuestion, <<>>, <<>>)
    /\ UNCHANGED <<mounted, questions, currentQuestionIndex, isAnswering,
                   showComplete, showCodeEditor, answeredQuestions, localAnswers,
                   storedProgress>>
    /\ UNCHANGED <<timerVars, answerVars, serverVars>>

\* the requests, toasts and state a save of question q ends with; the
\* handler first puts the entry in localAnswers and marks q answered, then
\* uploads and evaluates, then calls saveAnswer; the new currentInterview
\* re-runs the mount effect, which shuffles the questions again
SaveOutcome(name, q, local, ownRequests, ownToasts, transcript, net) ==
    LET sv == saveAnswer(q, transcript, local.code, net) IN
    /\ localAnswers' = ReplaceAnswer(localAnswers, local)
    /\ answeredQuestions' = MarkAnswered(answeredQuestions, q)
    /\ storedProgress' = Progress(currentQuestionIndex, answeredQuestions')
    /\ interviewAnswers' = updatedAnswers(interviewAnswers, sv.answer, sv.stored)
    /\ serverAnswers' =
            IF sv.stored
                THEN PostAnswer(SessionUser, sv.created[1], serverAnswers).answers
                ELSE serverAnswers
    /\ questions' \in Shuffles
    /\ lastOp' = Op(name, q, ownRequests \o sv.requests, ownToasts \o sv.toasts)

SaveNets ==
    [upload : BOOLEAN, evaluate : BOOLEAN, transcribe : Transcriptions,
     create : BOOLEAN]

handleSaveResponse(net) ==
    /\ mounted /\ isAnswering /\ ~showComplete
    /\ LET q == currentQuestion
           existingAnswer == ExistingAnswer(q)
           audioBlob == existingAnswer.audioBlob
           transcript == existingAnswer.transcript
           codeToSave == IF showCodeEditor THEN code ELSE ""
           evaluates == transcript # "" \/ codeToSave # ""
           aiEvaluation == evaluates /\ net.evaluate
       IN  SaveOutcome("handleSaveResponse", q,
                [questionId |-> q, audioBlob |-> audioBlob, transcript |-> transcript,
                 code |-> codeToSave,
                 score |-> IF aiEvaluation THEN "eval" ELSE "null"],
                (IF audioBlob # "none" THEN <<Req("upload", q, net.upload)>> ELSE <<>>)
                    \o (IF evaluates THEN <<Req("evaluate", q, net.evaluate)>>
                        ELSE <<>>),
                (IF audioBlob # "none" /\ ~net.upload
                    THEN <<"Failed to upload audio">> ELSE <<>>)
                    \o (IF evaluates /\ ~net.evaluate
                        THEN <<"Failed to get AI evaluation">> ELSE <<>>),
                transcript, net)
    /\ UNCHANGED <<mounted, currentQuestionIndex, isAnswering, showComplete,
                   showCodeEditor, code>>
    /\ UNCHANGED <<timerVars, serverVars>>

\* handleRecordingComplete(audioBlob, transcript): upload, evaluate,
\* saveAnswer, and only then the entry in localAnswers and the answered mark
handleRecordingComplete(audioBlob, transcript, net) ==
    LET q == currentQuestion
           actualTranscript ==
                IF transcript # "" /\ transcript # NotAvailable THEN transcript ELSE ""
           codeNow == IF showCodeEditor THEN code ELSE ""
           evaluates == actualTranscript # "" \/ codeNow # ""
           aiEvaluation == evaluates /\ net.evaluate
       IN  SaveOutcome("handleRecordingComplete", q,
                [questionId |-> q, audioBlob |-> audioBlob,
                 transcript |-> actualTranscript, code |-> codeNow,
                 score |-> IF aiEvaluation THEN "eval" ELSE "null"],
                <<Req("upload", q, net.upload)>>
                    \o (IF evaluates THEN <<Req("evaluate", q, net.evaluate)>>
                        ELSE <<>>),
                (IF ~net.upload THEN <<"Failed to upload audio">> ELSE <<>>)
                    \o (IF evaluates /\ ~net.evaluate
                        THEN <<"Failed to get AI evaluation">> ELSE <<>>),
                actualTranscript, net)

\* the Next Question / Finish Interview button of the answering panel
handleNextQuestion ==
    /\ mounted /\ isAnswering /\ ~showComplete /\ Settled
    /\ timerRef' = FALSE /\ autoSubmitRef' = FALSE
    /\ isAnswering' = FALSE
    /\ autoSubmitCountdown' = 0
    /\ IF currentQuestionIndex < LastIndex
        THEN currentQuestionIndex' = currentQuestionIndex + 1
                /\ UNCHANGED showComplete
        ELSE showComplete' = TRUE /\ UNCHANGED currentQuestionIndex
    /\ storedProgress' = Progress(currentQuestionIndex', answeredQuestions)
    /\ effectDeps' = <<0, FALSE, timeRemaining>>
    /\ effectTimer' = "none"
    /\ lastOp' = Op("handleNextQuestion", currentQuestion, <<>>, <<>>)
    /\ UNCHANGED <<mounted, questions, showCodeEditor, code, answeredQuestions,
                   localAnswers, timeRemaining>>
    /\ UNCHANGED <<answerVars, serverVars>>

\* the Next Question button under the card, enabled while not answering
nextQuestionButton ==
    /\ mounted /\ ~isAnswering /\ ~showComplete
    /\ currentQuestionIndex # LastIndex
    /\ currentQuestionIndex' = MinInt(LastIndex, currentQuestionIndex + 1)
    /\ storedProgress' = Progress(currentQuestionIndex', answeredQuestions)
    /\ lastOp' = Op("nextQuestionButton", currentQuestion, <<>>, <<>>)
    /\ UNCHANGED <<mounted, questions, isAnswering, showComplete, showCodeEditor,
                   code, answeredQuestions, localAnswers>>
    /\ UNCHANGED <<timerVars, answerVars, serverVars>>

-----------------------------------------------------------------------------
(* handleFinishInterview.  net holds what the requests meet: upload and    *)
(* evaluate, whether the upload and the evaluation service answer; batch   *)
(* for POST /answers/batch; cr[i] for the i-th single create; end for the  *)
(* update that completes the interview.                                    *)

RECURSIVE Flatten(_)
Flatten(seqs) == IF seqs = <<>> THEN <<>> ELSE Head(seqs) \o Flatten(Tail(seqs))

\* step 2 of the loop: a missing transcript of a recording gets the placeholder
FinishTranscript(local) ==
    IF local.transcript = "" /\ local.audioBlob # "none" THEN NotAvailable
    ELSE local.transcript

\* what the loop sends for one local answer before it pushes the element
PrepareRequests(local, upOk, evOk) ==
    (IF local.audioBlob # "none" THEN <<Req("upload", local.questionId, upOk)>>
     ELSE <<>>)
    \o (IF FinishTranscript(local) # ""
            THEN <<Req("evaluate", local.questionId, evOk)>> ELSE <<>>)

\* the element pushed to batchAnswers
BatchAnswer(local, upOk, evOk) ==
    [question |-> local.questionId,
     transcript |-> FinishTranscript(local),
     audioUrl |-> IF local.audioBlob # "none" /\ upOk THEN "url" ELSE "undefined",
     code |-> local.code,
     score |-> IF FinishTranscript(local) = "" THEN "0"
               ELSE IF evOk THEN "eval" ELSE "5"]

\* a fallback loop that gives up at the first create that fails
FallbackCreatesUntilFailure(batchAnswers, cr) ==
    LET fails == {i \in 1..Len(batchAnswers) : ~cr[i]}
        stop == IF fails = {} THEN Len(batchAnswers)
                ELSE CHOOSE i \in fails : \A j \in fails : i <= j
    IN  [i \in 1..stop |-> Req("create", batchAnswers[i].question, cr[i])]

\* for (const answer of batchAnswers) { try { await answerAPI.create(answer) }
\* catch {} }: one create per element, whatever the others met
FallbackCreates(batchAnswers, cr) ==
    [i \in 1..Len(batchAnswers) |-> Req("create", batchAnswers[i].question, cr[i])]

\* the Answer collection after the single creates that reached the server
RECURSIVE AfterCreates(_, _, _)
AfterCreates(batchAnswers, creates, answers) ==
    IF creates = <<>> THEN answers
    ELSE AfterCreates(Tail(batchAnswers), Tail(creates),
            IF Head(creates).ok
                THEN PostAnswer(SessionUser, Head(batchAnswers), answers).answers
                ELSE answers)

\* a finish that asks for the completion before it submits the answers
FinishRequestsEndFirst(prepare, submit, end) == prepare \o end \o submit

\* the awaits of handleFinishInterview in their order: the loop over
\* localAnswers, then the batch with its fallback, then endInterview
FinishRequests(prepare, submit, end) == prepare \o submit \o end

FinishNets(n) ==
    [upload : BOOLEAN, evaluate : BOOLEAN, batch : BOOLEAN,
     cr : [1..n -> BOOLEAN], end : BOOLEAN]

handleFinishInterview(net) ==
    /\ mounted
    /\ showComplete \/ (~isAnswering /\ currentQuestionIndex = LastIndex)
    /\ LET n == Len(localAnswers)
           batchAnswers ==
                [i \in 1..n |-> BatchAnswer(localAnswers[i], net.upload, net.evaluate)]
           prepare ==
                Flatten([i \in 1..n |->
                            PrepareRequests(localAnswers[i], net.upload, net.evaluate)])
           creates == IF n > 0 /\ ~net.batch
                        THEN FallbackCreates(batchAnswers, net.cr) ELSE <<>>
       IN  /\ serverAnswers' =
                IF n = 0 THEN serverAnswers
                ELSE IF net.batch THEN PostBatch(batchAnswers, serverAnswers)
                ELSE AfterCreates(batchAnswers, creates, serverAnswers)
           /\ lastOp' = Op("handleFinishInterview", 0,
                FinishRequests(prepare,
                    (IF n > 0 THEN <<Req("batch", 0, net.batch)>> ELSE <<>>)
                        \o creates,
                    <<Req("end", 0, net.end)>>),
                Flatten([i \in 1..n |->
                    IF localAnswers[i].audioBlob # "none" /\ ~net.upload
                        THEN <<"Audio upload failed for one of your answers.">>
                        ELSE <<>>])
                    \o (IF n > 0 /\ ~net.batch
                        THEN <<"Some answers may not have been saved properly.">>
                        ELSE <<>>)
                    \o (IF net.end THEN <<>>
                        ELSE <<"Failed to end interview. Please try again.",
                               "Failed to mark interview as completed">>))
    /\ IF net.end THEN EndInterview(SessionUser) ELSE UNCHANGED serverVars
    /\ mounted' = FALSE
    /\ UNCHANGED <<questions, currentQuestionIndex, isAnswering, showComplete,
                   showCodeEditor, code, answeredQuestions, localAnswers,
                   storedProgress, interviewAnswers>>
    /\ UNCHANGED timerVars

-----------------------------------------------------------------------------
(* The timers of the Interview page.                                       *)
(* The countdown interval and the grace interval are set when their        *)
(* callbacks run; the effect's setTimeout is set when the effect runs,     *)
(* after the render that follows.  A grace tick therefore comes before the *)
(* time-out armed in the second before it, and that time-out then races    *)
(* with the effect's cleanup (clearTimeout) of the render the tick caused. *)

\* the callback of the countdown interval
tick ==
    /\ mounted /\ timerRef /\ Settled
    /\ LET newTime == timeRemaining - 1 IN
        /\ timeRemaining' = IF newTime > 0 THEN newTime ELSE 0
        /\ IF newTime <= 0
            THEN /\ timerRef' = FALSE
                 /\ autoSubmitCountdown' = GraceSeconds
                 /\ autoSubmitRef' = TRUE
            ELSE UNCHANGED <<timerRef, autoSubmitCountdown, autoSubmitRef>>
    /\ UNCHANGED <<effectTimer, effectDeps>>
    /\ UNCHANGED <<pageVars, answerVars, serverVars>>

\* the callback of the grace interval; at 0 it clears itself and calls
\* handleTimeUp, which only ends answering
graceTick ==
    /\ mounted /\ autoSubmitRef /\ Settled
    /\ LET newCount == autoSubmitCountdown - 1 IN
        IF newCount <= 0
            THEN /\ autoSubmitRef' = FALSE
                 /\ isAnswering' = FALSE
                 /\ autoSubmitCountdown' = 0
            ELSE /\ autoSubmitCountdown' = newCount
                 /\ UNCHANGED <<autoSubmitRef, isAnswering>>
    /\ effectTimer' = IF effectTimer = "armed" THEN "due" ELSE effectTimer
    /\ UNCHANGED <<timeRemaining, timerRef, effectDeps>>
    /\ UNCHANGED <<mounted, questions, currentQuestionIndex, showComplete,
                   showCodeEditor, code, answeredQuestions, localAnswers,
                   storedProgress, lastOp>>
    /\ UNCHANGED <<answerVars, serverVars>>

\* the effect's setTimeout fires before the effect is cleaned up
effectTimeout ==
    /\ mounted /\ effectTimer = "due"
    /\ autoSubmitCountdown' = autoSubmitCountdown - 1
    /\ effectTimer' = "none"
    /\ UNCHANGED <<timeRemaining, timerRef, autoSubmitRef, effectDeps>>
    /\ UNCHANGED <<pageVars, answerVars, serverVars>>

\* the autoSubmitCountdown effect after a render that changed its
\* dependencies: the cleanup clears the pending time-out, then the body runs
EffectRuns ==
    /\ mounted /\ Deps # effectDeps
    /\ effectDeps' = Deps
    /\ effectTimer' = EffectTimerFor(autoSubmitCountdown)
    /\ UNCHANGED <<mounted, currentQuestionIndex, isAnswering, showComplete,
                   showCodeEditor, code>>
    /\ UNCHANGED <<timeRemaining, autoSubmitCountdown, timerRef, autoSubmitRef>>
    /\ UNCHANGED serverVars

\* the branch of the effect body that submits
TimeRanOut == autoSubmitCountdown = 0 /\ isAnswering /\ timeRemaining = 0

\* the effect arms its time-out (countdown within 1..5) or does nothing
autoSubmitEffect ==
    /\ EffectRuns /\ ~TimeRanOut
    /\ UNCHANGED <<questions, answeredQuestions, localAnswers, storedProgress,
                   lastOp, answerVars>>

\* the effect finds the countdown at 0 while answering with no time left:
\* handleRecordingComplete(new Blob(), '')
autoSubmit(net) ==
    /\ EffectRuns /\ TimeRanOut
    /\ handleRecordingComplete("empty", "", net)

-----------------------------------------------------------------------------
(* The session specification: the page of a started interview, within the  *)
(* question's time                                                         *)

InitSessionVars ==
    /\ serverAnswers = <<>> /\ interviewAnswers = <<>>
    /\ mounted = TRUE /\ questions \in Shuffles /\ currentQuestionIndex = 0
    /\ isAnswering = FALSE /\ showComplete = FALSE /\ showCodeEditor = FALSE
    /\ code = "" /\ answeredQuestions = {} /\ localAnswers = <<>>
    /\ storedProgress = Progress(0, {}) /\ lastOp = NoOp
    /\ timeRemaining = MAX_QUESTION_TIME /\ autoSubmitCountdown = 0
    /\ timerRef = FALSE /\ autoSubmitRef = FALSE
    /\ effectTimer = "none"
    /\ effectDeps = <<0, FALSE, MAX_QUESTION_TIME>>

\* the interview after its start call was accepted
StartedServerVars ==
    /\ status = StartResult(Candidate, 0, DefaultStatus, MkDate(0),
                            [h |-> 10, m |-> 0], 0).status
    /\ scheduledDate = MkDate(0)
    /\ scheduledTime = [h |-> 10, m |-> 0]
    /\ duration = DurationOrDefault(0)
    /\ lastResp = NoResp

InitSession ==
    InitSessionVars /\ StartedServerVars /\ IdleEvalVars /\ IdleExtractVars
        /\ IdleCallVars /\ IdleComponentVars

NextSession ==
    /\ \/ handleStartAnswering
       \/ \E t \in RecorderTranscripts : onRecordingComplete(t)
       \/ toggleCodeEditor
       \/ \E c \in EditorCodes : setCode(c)
       \/ Len(interviewAnswers) < MaxSaves
            /\ \E net \in SaveNets : handleSaveResponse(net)
       \/ handleNextQuestion
       \/ nextQuestionButton
       \/ \E net \in FinishNets(Len(localAnswers)) : handleFinishInterview(net)
    /\ UNCHANGED <<evalVars, extractVars, callVars, componentVars>>

SpecSession == InitSession /\ [][NextSession]_vars

-----------------------------------------------------------------------------
(* The timer specification: a question is opened and left to run out; the  *)
(* candidate neither records nor saves                                     *)

\* the auto-submits of one run; no question is opened after the last
MaxAutoSubmits == 1

InitTimer == InitSession

NextTimer ==
    /\ \/ Len(interviewAnswers) < MaxAutoSubmits /\ handleStartAnswering
       \/ toggleCodeEditor
       \/ \E c \in EditorCodes : setCode(c)
       \/ tick
       \/ graceTick
       \/ effectTimeout
       \/ autoSubmitEffect
       \/ \E net \in SaveNets : autoSubmit(net)
    /\ UNCHANGED <<evalVars, extractVars, callVars, componentVars>>

SpecTimer == InitTimer /\ [][NextTimer]_vars

-----------------------------------------------------------------------------
(* The answers specification: POST /answers, PUT /answers/:id and POST     *)
(* /answers/batch called by any signed-in user, on a collection of at most *)
(* MaxDocs documents                                                       *)

\* the documents the collection may hold
MaxDocs == 3

\* the elements of one batch
MaxBatch == 2

\* an element as handleFinishInterview builds it: evaluated and uploaded, or
\* with the score of a failed evaluation and no audioUrl
AnswerBodies ==
    {[question |-> q, transcript |-> Spoken, audioUrl |-> e[1], code |-> "",
      score |-> e[2]] : q \in QuestionIds, e \in {<<"url", "eval">>, <<"undefined", "5">>}}

Batches ==
    UNION {[1..n -> AnswerBodies] : n \in 0..MaxBatch}

\* router.post('/')
CreateAnswer(u, body) ==
    /\ Len(serverAnswers) < MaxDocs
    /\ LET r == PostAnswer(u, body, serverAnswers) IN
        /\ serverAnswers' = r.answers
        /\ answersResp' = [called |-> TRUE, op |-> "create", caller |-> u,
                           body |-> <<body>>, code |-> r.code,
                           before |-> Len(serverAnswers)]

\* router.post('/batch')
BatchAnswers(u, bodies) ==
    /\ Len(PostBatch(bodies, serverAnswers)) <= MaxDocs
    /\ serverAnswers' = PostBatch(bodies, serverAnswers)
    /\ answersResp' = [called |-> TRUE, op |-> "batch", caller |-> u,
                       body |-> bodies, code |-> 201,
                       before |-> Len(serverAnswers)]

\* router.put('/:id') on the i-th document
UpdateAnswer(u, i, body) ==
    /\ i \in DOMAIN serverAnswers
    /\ LET r == PutAnswer(u, body, serverAnswers, i) IN
        /\ serverAnswers' = r.answers
        /\ answersResp' = [called |-> TRUE, op |-> "update", caller |-> u,
                           body |-> <<body>>, code |-> r.code,
                           before |-> Len(serverAnswers)]

InitAnswers ==
    /\ IdleSessionVars /\ StartedServerVars /\ IdleEvalVars /\ IdleExtractVars
    /\ IdleCallVars /\ IdleComponentVars

NextAnswers ==
    /\ \/ \E u \in Users, body \in AnswerBodies : CreateAnswer(u, body)
       \/ \E u \in Users, bodies \in Batches : BatchAnswers(u, bodies)
       \/ \E u \in Users, i \in 1..MaxDocs, body \in AnswerBodies :
                UpdateAnswer(u, i, body)
    /\ UNCHANGED <<serverVars, evalVars, extractVars, pageVars, timerVars,
                   interviewAnswers, saveIn, saveOut, saveRun, evalRuns,
                   componentVars>>

SpecAnswers == InitAnswers /\ [][NextAnswers]_vars

-----------------------------------------------------------------------------
(* The progress specification: the session with its timers, without        *)
(* recordings and code, and with a reload of the page in the browser.      *)
(* A reload drops the page's and the context's state; the new page mounts  *)
(* with currentInterview unset, and its effects run in the order they are  *)
(* declared: the mount effect sends refreshInterview, the save-progress    *)
(* effect writes the initial state to storage.  The restore runs when      *)
(* refreshInterview resolves.                                              *)

\* calls of saveAnswer between two loads of the page
MaxProgressSaves == 2

\* the page has its interview and its questions
Loaded == questions # <<>>

\* the answers refreshInterview maps from GET /answers?interview=:id
FetchedAnswers ==
    [i \in DOMAIN serverAnswers |->
        [questionId |-> serverAnswers[i].question,
         transcript |-> serverAnswers[i].transcript,
         code |-> serverAnswers[i].code, score |-> serverAnswers[i].score]]

\* the browser reloads the page: first render and its effects
reload ==
    /\ mounted /\ Loaded
    /\ questions' = <<>> /\ currentQuestionIndex' = 0
    /\ isAnswering' = FALSE /\ showComplete' = FALSE /\ showCodeEditor' = FALSE
    /\ code' = "" /\ answeredQuestions' = {} /\ localAnswers' = <<>>
    /\ interviewAnswers' = <<>>
    /\ storedProgress' = Progress(0, {})
    /\ timeRemaining' = MAX_QUESTION_TIME /\ autoSubmitCountdown' = 0
    /\ timerRef' = FALSE /\ autoSubmitRef' = FALSE
    /\ effectTimer' = "none"
    /\ effectDeps' = <<0, FALSE, MAX_QUESTION_TIME>>
    /\ lastOp' = [op |-> "reload", question |-> 0, requests |-> <<>>,
                  toasts |-> <<>>, unloaded |-> storedProgress]
    /\ UNCHANGED <<mounted, serverAnswers, serverVars>>

\* refreshInterview resolved: setCurrentInterview(fetched), the restore of
\* the stored progress, the shuffle of the questions and the save-progress
\* effect of the render that follows
restoreProgress ==
    /\ mounted /\ ~Loaded
    /\ interviewAnswers' = FetchedAnswers
    /\ questions' \in Shuffles
    /\ IF storedProgress.stored
        THEN /\ currentQuestionIndex' = storedProgress.questionIndex
             /\ answeredQuestions' = storedProgress.answeredQuestions
        ELSE UNCHANGED <<currentQuestionIndex, answeredQuestions>>
    /\ storedProgress' = Progress(currentQuestionIndex', answeredQuestions')
    /\ lastOp' = [op |-> "restoreProgress", question |-> 0,
                  requests |-> <<Req("getById", 0, TRUE),
                                Req("getByInterview", 0, TRUE)>>,
                  toasts |-> <<>>, unloaded |-> lastOp.unloaded]
    /\ UNCHANGED <<mounted, isAnswering, showComplete, showCodeEditor, code,
                   localAnswers, serverAnswers>>
    /\ UNCHANGED <<timerVars, serverVars>>

\* what the requests of a save meet in this specification: the evaluation
\* answers, the transcription returns no text, the server is reached or not
ProgressNets ==
    {net \in SaveNets : net.evaluate /\ net.transcribe = "none"
                            /\ net.upload = net.create}

InitProgress == InitSession

NextProgress ==
    /\ \/ Loaded /\ handleStartAnswering
       \/ Loaded /\ onRecordingComplete(Spoken)
       \/ Loaded /\ Len(interviewAnswers) < MaxProgressSaves
            /\ \E net \in ProgressNets : handleSaveResponse(net)
       \/ Loaded /\ handleNextQuestion
       \/ Loaded /\ nextQuestionButton
       \/ tick
       \/ graceTick
       \/ effectTimeout
       \/ autoSubmitEffect
       \/ Len(interviewAnswers) < MaxProgressSaves
            /\ \E net \in ProgressNets : autoSubmit(net)
       \/ reload
       \/ restoreProgress
    /\ UNCHANGED <<evalVars, extractVars, callVars, componentVars>>

SpecProgress == InitProgress /\ [][NextProgress]_vars

-----------------------------------------------------------------------------
(* The save specification: one run of handleSaveResponse, promise by       *)
(* promise.  pc is where the handler is: "upload" and "evaluate" are the   *)
(* two statements that create the promises, run one after the other        *)
(* without an await between them; "await" is await Promise.all([...]);     *)
(* "save" is await saveAnswer(...); "done" is the end of the handler.      *)
(* A promise is "unsent", "none" (Promise.resolve without a request),      *)
(* "pending", "ok" or "failed"; its callbacks run only while the handler   *)
(* is suspended.                                                           *)

\* what the handler finds for the current question
SaveInputs ==
    [existing : {[audioBlob |-> "none", transcript |-> ""]}
                    \cup [audioBlob : {"recording"}, transcript : RecorderTranscripts],
     showCodeEditor : BOOLEAN, code : EditorCodes]

\* if (transcript || (showCodeEditor && codeToSave))
Evaluates(in) == in.existing.transcript # "" \/ (in.showCodeEditor /\ in.code # "")

Settled2(p) == p \in {"none", "ok", "failed"}

\* a join that resumes as soon as one of the two promises has settled
JoinedAny(run) == Settled2(run.upload) \/ Settled2(run.evaluate)

\* Promise.all([audioUploadPromise, aiEvaluationPromise]): both promises
\* end in a catch, so the join never rejects and resumes when both settled
Joined(run) == Settled2(run.upload) /\ Settled2(run.evaluate)

\* Save Response is clicked; the button is disabled while a run is going on
startSaveResponse(in) ==
    /\ IF saveRun.called THEN saveRun.pc = "done" ELSE TRUE
    /\ saveRun' = [called |-> TRUE, in |-> in, pc |-> "upload",
                   upload |-> "unsent", evaluate |-> "unsent", save |-> "unsent",
                   toasts |-> <<>>]

\* if (audioBlob) audioUploadPromise = uploadAPI.uploadAudio(audioBlob)...
createUploadPromise ==
    /\ saveRun.called /\ saveRun.pc = "upload"
    /\ saveRun' = [saveRun EXCEPT !.pc = "evaluate",
                        !.upload = IF saveRun.in.existing.audioBlob # "none"
                                   THEN "pending" ELSE "none"]

\* if (transcript || ...) aiEvaluationPromise = aiAPI.evaluate({...})...
createEvaluationPromise ==
    /\ saveRun.called /\ saveRun.pc = "evaluate"
    /\ saveRun' = [saveRun EXCEPT !.pc = "await",
                        !.evaluate = IF Evaluates(saveRun.in) THEN "pending"
                                     ELSE "none"]

\* the then or the catch of the upload promise
uploadSettles(ok) ==
    /\ saveRun.called /\ saveRun.pc = "await" /\ saveRun.upload = "pending"
    /\ saveRun' = [saveRun EXCEPT !.upload = IF ok THEN "ok" ELSE "failed",
                        !.toasts = IF ok THEN @
                                   ELSE Append(@, "Failed to upload audio")]

\* the then or the catch of the evaluation promise
evaluationSettles(ok) ==
    /\ saveRun.called /\ saveRun.pc = "await" /\ saveRun.evaluate = "pending"
    /\ saveRun' = [saveRun EXCEPT !.evaluate = IF ok THEN "ok" ELSE "failed",
                        !.toasts = IF ok THEN @
                                   ELSE Append(@, "Failed to get AI evaluation")]

\* the handler resumes after the join and calls saveAnswer
callSaveAnswer ==
    /\ saveRun.called /\ saveRun.pc = "await" /\ Joined(saveRun)
    /\ saveRun' = [saveRun EXCEPT !.pc = "save", !.save = "pending"]

\* saveAnswer resolves, or rejects into the handler's catch
saveAnswerSettles(ok) ==
    /\ saveRun.called /\ saveRun.pc = "save"
    /\ saveRun' = [saveRun EXCEPT !.pc = "done",
                        !.save = IF ok THEN "ok" ELSE "failed"]

InitSave == InitSession

NextSave ==
    /\ \/ \E in \in SaveInputs : startSaveResponse(in)
       \/ createUploadPromise
       \/ createEvaluationPromise
       \/ \E ok \in BOOLEAN : uploadSettles(ok)
       \/ \E ok \in BOOLEAN : evaluationSettles(ok)
       \/ callSaveAnswer
       \/ \E ok \in BOOLEAN : saveAnswerSettles(ok)
    /\ UNCHANGED <<serverVars, evalVars, extractVars, sessionVars,
                   answersResp, saveIn, saveOut, evalRuns, componentVars>>

SpecSave == InitSave /\ [][NextSave]_vars

-----------------------------------------------------------------------------
(* The assemble specification: one call of saveAnswer on bounded arguments *)
(* and local state                                                         *)

\* the call as its caller sees it: interviews.find(...) and the look-up of
\* the question throw inside the outer try, whose catch shows a toast and
\* throws again; past the two look-ups every failure is caught inside
saveAnswerCall(interviewFound, questionFound, questionId, transcript, codeText, net) ==
    IF ~interviewFound
        THEN [called |-> TRUE, rejected |-> TRUE, error |-> "Interview not found",
              toasts |-> <<"Failed to save answer">>, added |-> <<>>,
              requests |-> <<>>]
    ELSE IF ~questionFound
        THEN [called |-> TRUE, rejected |-> TRUE, error |-> "Question not found",
              toasts |-> <<"Failed to save answer">>, added |-> <<>>,
              requests |-> <<>>]
    ELSE LET sv == saveAnswer(questionId, transcript, codeText, net) IN
         [called |-> TRUE, rejected |-> FALSE, error |-> "",
          toasts |-> sv.toasts,
          added |-> updatedAnswers(<<>>, sv.answer, sv.stored),
          requests |-> sv.requests]

\* what the requests of the call meet, in free mode and in paid mode
AssembleNets ==
    [upload : BOOLEAN, evaluate : BOOLEAN, transcribe : Transcriptions,
     create : BOOLEAN, useFreeMode : BOOLEAN]

AssembleInputs ==
    [called : {TRUE}, interviewFound : BOOLEAN, questionFound : BOOLEAN,
     transcript : {""} \cup RecorderTranscripts, code : EditorCodes,
     net : AssembleNets]

InitAssemble ==
    /\ saveIn \in AssembleInputs
    /\ saveOut = NoCall /\ answersResp = NoCall /\ saveRun = NoCall
    /\ evalRuns = <<>>
    /\ IdleServerVars /\ IdleEvalVars /\ IdleExtractVars /\ IdleSessionVars
    /\ IdleComponentVars

Assemble ==
    /\ ~saveOut.called
    /\ saveOut' = saveAnswerCall(saveIn.interviewFound, saveIn.questionFound, 1,
                                 saveIn.transcript, saveIn.code, saveIn.net)
    /\ UNCHANGED <<saveIn, answersResp, saveRun, evalRuns>>

NextAssemble ==
    Assemble
        /\ UNCHANGED <<serverVars, evalVars, extractVars, sessionVars, componentVars>>

SpecAssemble == InitAssemble /\ [][NextAssemble]_vars

-----------------------------------------------------------------------------
(* The fallback specification: the evaluation step of saveAnswer, run more *)
(* than once on the response POST /ai/evaluate gave to one request         *)

\* evaluations of the same request
MaxEvalRuns == 2

\* Math.floor(Math.random() * 5) + 6
MockScores == 6..10

\* mockEvaluateAnswer(question, transcript): the score is drawn at random
\* and the feedback follows it; neither argument is read
mockEvaluateAnswer(score) ==
    [score |-> score,
     feedback |-> IF score >= 9 THEN "Excellent answer"
                  ELSE IF score >= 7 THEN "Good answer" ELSE "Satisfactory answer"]

\* the evaluation step of saveAnswer: score, feedback and criteria of the
\* response, or of mockEvaluateAnswer when the request failed; criteria is
\* then never assigned
saveAnswerEvaluation(resp, random) ==
    IF resp.code = 200
        THEN [score |-> resp.data.score, feedback |-> "[EVALUATED BY COHERE AI]",
              criteria |-> resp.data.criteria, method |-> resp.evaluationMethod]
        ELSE [score |-> mockEvaluateAnswer(random).score,
              feedback |-> "[MOCK EVALUATION]",
              criteria |-> "undefined", method |-> "mock"]

\* requests with a question and an answer; the key is set or not, the
\* Cohere call fails or generates an evaluation object
FallbackRequests ==
    [called : {TRUE}, question : {TRUE}, answer : {TRUE}, key : BOOLEAN,
     generated : BOOLEAN,
     text : {<<"{", "sf8", "{", "cr", "}", "}">>, <<"{", "sf3", "{", "cr", "}", "}">>}]

InitFallback ==
    /\ aiReq \in FallbackRequests
    /\ aiResp = NoEval
    /\ IdleServerVars /\ IdleEvalVars /\ IdleSessionVars /\ IdleCallVars
    /\ IdleComponentVars

\* saveAnswer evaluates the answer once more
EvaluateInSaveAnswer(random) ==
    /\ aiResp.called /\ Len(evalRuns) < MaxEvalRuns
    /\ evalRuns' = Append(evalRuns, saveAnswerEvaluation(aiResp, random))
    /\ UNCHANGED <<aiReq, aiResp, answersResp, saveIn, saveOut, saveRun>>

NextFallback ==
    /\ \/ EvaluateAnswer /\ UNCHANGED callVars
       \/ \E random \in MockScores : EvaluateInSaveAnswer(random)
    /\ UNCHANGED <<serverVars, evalVars, sessionVars, componentVars>>

SpecFallback == InitFallback /\ [][NextFallback]_vars

-----------------------------------------------------------------------------
(* The recorder specification: one AudioRecorder, from its first render to *)
(* its unmount and the getUserMedia calls that resolve after it.           *)
(* recorder.live is the set of media streams whose tracks are live, ref    *)
(* the stream of mediaRecorderRef.current (0: null), pending the           *)
(* getUserMedia calls that have not resolved.                              *)

\* getUserMedia calls of one recorder
MaxStreams == 3

\* useState(false): isRecording as the first render sees it
InitialIsRecording == FALSE

FirstRender ==
    [mounted |-> TRUE, isRecording |-> InitialIsRecording, pending |-> 0,
     opened |-> 0, calls |-> 0, live |-> {}, ref |-> 0, last |-> "render"]

\* stopRecording as the render that defined it sees isRecording:
\* if (mediaRecorderRef.current && isRecording) { stop the recorder and
\* every track of its stream; setIsRecording(false) }
stopRecordingOf(rec, isRecording) ==
    IF rec.ref # 0 /\ isRecording
        THEN [rec EXCEPT !.live = @ \ {rec.ref}, !.isRecording = FALSE]
        ELSE rec

\* the Start Recording / Record Again button, shown while not recording:
\* the handler runs up to await getUserMedia
startRecording ==
    /\ recorder.mounted /\ ~recorder.isRecording
    /\ recorder.calls < MaxStreams
    /\ recorder' = [recorder EXCEPT !.pending = @ + 1, !.calls = @ + 1,
                                    !.last = "startRecording"]

\* getUserMedia resolves with a stream, or rejects into the catch; the rest
\* of startRecording runs whether or not the component is still mounted
getUserMedia(granted) ==
    /\ recorder.pending > 0
    /\ recorder' =
            IF granted
                THEN [recorder EXCEPT !.pending = @ - 1,
                        !.opened = @ + 1,
                        !.live = @ \cup {recorder.opened + 1},
                        !.ref = recorder.opened + 1,
                        !.isRecording = recorder.mounted,
                        !.last = "getUserMedia"]
                ELSE [recorder EXCEPT !.pending = @ - 1, !.last = "getUserMedia"]

\* the Stop Recording button, shown while recording
stopRecording ==
    /\ recorder.mounted /\ recorder.isRecording
    /\ recorder' = [stopRecordingOf(recorder, recorder.isRecording)
                        EXCEPT !.last = "stopRecording"]

\* the clean-up of the effect with no dependencies: it calls the
\* stopRecording of the first render
unmountRecorder ==
    /\ recorder.mounted
    /\ recorder' = [stopRecordingOf(recorder, InitialIsRecording)
                        EXCEPT !.mounted = FALSE, !.last = "unmount"]

InitRecorder ==
    /\ recorder = FirstRender /\ player = Unmounted
    /\ IdleServerVars /\ IdleEvalVars /\ IdleExtractVars /\ IdleSessionVars
    /\ IdleCallVars

NextRecorder ==
    /\ \/ startRecording
       \/ \E granted \in BOOLEAN : getUserMedia(granted)
       \/ stopRecording
       \/ unmountRecorder
    /\ UNCHANGED <<serverVars, evalVars, extractVars, sessionVars, callVars, player>>

SpecRecorder == InitRecorder /\ [][NextRecorder]_vars

-----------------------------------------------------------------------------
(* The player specification: one AudioPlayer.                              *)
(* A URL is [host, dir, file]; host "" is a relative URL.  The <audio>     *)
(* element is rendered while audioUrl is set and error is null, and loads  *)
(* its src when it is mounted and when the src changes: player.element is  *)
(* "none" (not rendered), "loading", "loaded" or "failed".  player.play is *)
(* the promise of play(): "none", "pending" while the src is loading, or   *)
(* "rejected" when the browser has rejected it (the load failed, the src   *)
(* changed, the element was paused or removed) and its catch is to run.    *)
(* player.tried tells that the fallback URL was put in currentUrl since    *)
(* audioUrl last changed.                                                  *)

\* values attemptCount takes before Try Different Format is left alone
MaxAttempts == 3

\* load errors of one audioUrl
MaxLoadErrors == 3

NoUrl == [host |-> "", dir |-> "", file |-> ""]

\* the server of VITE_API_URL without /api/v1
BaseServer == "server"

AudioUrls ==
    {[host |-> "server", dir |-> "uploads", file |-> "a.webm"],
     [host |-> "files", dir |-> "audio", file |-> "a.webm"],
     [host |-> "", dir |-> "uploads", file |-> "b.webm"]}

\* getFallbackUrl(url): `${baseServerUrl}/uploads/${filename}` for a full
\* URL, the server's absolute URL for a relative one
getFallbackUrl(url) ==
    IF url = NoUrl THEN NoUrl
    ELSE IF url.host # "" THEN [host |-> BaseServer, dir |-> "uploads", file |-> url.file]
    ELSE [url EXCEPT !.host = BaseServer]

\* a handler that tries the fallback on every load error
autoFallbackAlways(audioUrl, attemptCount) == audioUrl # NoUrl

\* if (audioUrl && attemptCount === 0)
autoFallback(audioUrl, attemptCount) == audioUrl # NoUrl /\ attemptCount = 0

\* the <audio> element and the play() promise after a render that took the
\* player from p to q
Rendered(p, q) ==
    LET shown == q.audioUrl # NoUrl /\ q.error = "null"
        reloads == p.element = "none" \/ q.currentUrl # p.currentUrl
    IN  [q EXCEPT
            !.element = IF ~shown THEN "none"
                        ELSE IF reloads THEN "loading" ELSE q.element,
            !.play = IF q.play = "pending" /\ (~shown \/ reloads)
                        THEN "rejected" ELSE q.play]

FirstPlayer(audioUrl, hasOnReload) ==
    [mounted |-> TRUE, hasOnReload |-> hasOnReload, audioUrl |-> audioUrl,
     currentUrl |-> audioUrl, attemptCount |-> 0, error |-> "null",
     isPlaying |-> FALSE,
     element |-> IF audioUrl = NoUrl THEN "none" ELSE "loading",
     play |-> "none", tried |-> FALSE,
     loadErrors |-> 0, autoAttempts |-> 0, last |-> "render"]

\* no callback is waiting to run
Quiet == player.mounted /\ player.play # "rejected"

\* the parent renders the player with another audioUrl: the effect on
\* [audioUrl] resets error, currentUrl and attemptCount
audioUrlChanges(url) ==
    /\ Quiet /\ url # player.audioUrl
    /\ player' = Rendered(player,
            [player EXCEPT !.audioUrl = url, !.currentUrl = url,
                           !.attemptCount = 0, !.error = "null",
                           !.tried = FALSE,
                           !.loadErrors = 0, !.autoAttempts = 0,
                           !.last = "audioUrlChanges"])

\* the src is loaded; a pending play() resolves
loadSucceeds ==
    /\ Quiet /\ player.element = "loading"
    /\ player' = [player EXCEPT !.element = "loaded", !.play = "none",
                                !.last = "loadSucceeds"]

\* onError of the <audio> element; a pending play() is rejected after it
handleError ==
    /\ Quiet /\ player.element = "loading"
    /\ player.loadErrors < MaxLoadErrors
    /\ LET failed == [player EXCEPT
                        !.element = "failed",
                        !.play = IF @ = "pending" THEN "rejected" ELSE @,
                        !.loadErrors = @ + 1,
                        !.last = "handleError"]
       IN  player' =
            IF autoFallback(player.audioUrl, player.attemptCount)
                THEN Rendered(failed,
                        [failed EXCEPT !.currentUrl = getFallbackUrl(player.audioUrl),
                                       !.attemptCount = 1,
                                       !.tried = TRUE,
                                       !.autoAttempts = @ + 1])
                ELSE Rendered(failed,
                        [failed EXCEPT !.error = "Failed to load audio file"])

\* the catch of play(): setError('Failed to play audio')
playRejected ==
    /\ player.mounted /\ player.play = "rejected"
    /\ player' = Rendered(player,
            [player EXCEPT !.play = "none", !.error = "Failed to play audio",
                           !.last = "playRejected"])

\* the Play / Pause button: pause(), which rejects a pending play(), or
\* play(), which resolves on a loaded src, is rejected on a failed one and
\* stays pending while the src is loading
handlePlayPause ==
    /\ Quiet /\ player.element # "none"
    /\ player' =
        IF player.isPlaying
            THEN [player EXCEPT !.isPlaying = FALSE,
                                !.play = IF @ = "pending" THEN "rejected" ELSE @,
                                !.last = "handlePlayPause"]
            ELSE [player EXCEPT !.isPlaying = TRUE,
                                !.play = CASE player.element = "loaded" -> "none"
                                           [] player.element = "failed" -> "rejected"
                                           [] OTHER -> "pending",
                                !.last = "handlePlayPause"]

\* onEnded of the <audio> element
onEnded ==
    /\ Quiet /\ player.element = "loaded" /\ player.isPlaying
    /\ player' = [player EXCEPT !.isPlaying = FALSE, !.last = "onEnded"]

\* Reload Audio / Try Different Format
handleReload ==
    /\ Quiet
    /\ player.audioUrl = NoUrl => player.hasOnReload
    /\ player.attemptCount < MaxAttempts
    /\ player' =
        IF player.hasOnReload
            THEN Rendered(player,
                    [player EXCEPT !.error = "null", !.last = "handleReload"])
        ELSE IF player.audioUrl # NoUrl /\ player.error # "null"
            THEN Rendered(player,
                    [player EXCEPT !.currentUrl = getFallbackUrl(player.audioUrl),
                                   !.attemptCount = @ + 1,
                                   !.tried = TRUE,
                                   !.error = "null", !.last = "handleReload"])
        ELSE [player EXCEPT !.last = "handleReload"]

InitPlayer ==
    /\ \E url \in AudioUrls \cup {NoUrl}, hasOnReload \in BOOLEAN :
            player = FirstPlayer(url, hasOnReload)
    /\ recorder = Unmounted
    /\ IdleServerVars /\ IdleEvalVars /\ IdleExtractVars /\ IdleSessionVars
    /\ IdleCallVars

NextPlayer ==
    /\ \/ \E url \in AudioUrls \cup {NoUrl} : audioUrlChanges(url)
       \/ loadSucceeds
       \/ handleError
       \/ playRejected
       \/ handlePlayPause
       \/ onEnded
       \/ handleReload
    /\ UNCHANGED <<serverVars, evalVars, extractVars, sessionVars, callVars, recorder>>

SpecPlayer == InitPlayer /\ [][NextPlayer]_vars

-----------------------------------------------------------------------------
(* Properties of the interview routes *)

Rank(s) == CASE s = "scheduled" -> 0 [] s = "in-progress" -> 1 [] OTHER -> 2

\* a step from a later status back to an earlier one; cancelled is final
Regress(a, b) ==
    \/ a # "cancelled" /\ b # "cancelled" /\ Rank(b) < Rank(a)
    \/ a = "cancelled" /\ b # "cancelled"

\* C1: under every sequence of start, update and end calls the status only
\* moves forward (scheduled -> in-progress -> completed, or to cancelled);
\* no step takes it from a later status back to an earlier one.
C1_StatusOnlyMovesForward == [][~Regress(status, status')]_vars

WindowErrors == {"Interview has not started yet.", "Interview window has passed."}

OutsideWindow(now) == now < WindowOpen \/ now > WindowClose

\* C2: a start call made before scheduledStart or after scheduledStart +
\* duration is answered with a window-violation error and leaves the status
\* as it was, whoever the caller is.
C2_StartOutsideWindowRejected ==
    (lastResp.op = "start" /\ OutsideWindow(lastResp.now))
        => (lastResp.error \in WindowErrors /\ status = lastResp.before)

\* C3: the candidate's start call inside the window on a scheduled interview
\* is accepted and sets in-progress; the same call one minute before
\* scheduledStart is rejected and the status stays scheduled; a call on an
\* interview that is not scheduled is rejected with the status unchanged.
C3_StartScenario ==
    lastResp.op = "start" =>
        /\ (lastResp.caller = Candidate /\ ~OutsideWindow(lastResp.now)
                /\ lastResp.before = "scheduled")
            => (lastResp.code = 200 /\ status = "in-progress")
        /\ (lastResp.caller = Candidate /\ lastResp.now = WindowOpen - 1
                /\ lastResp.before = "scheduled")
            => (lastResp.code # 200 /\ status = "scheduled")
        /\ lastResp.before # "scheduled"
            => (lastResp.code # 200 /\ status = lastResp.before)

-----------------------------------------------------------------------------
(* Properties of createFallbackEvaluation *)

\* the transcript starts with a greeting: its first words are one of
\* hi, hello, hey, greetings, my name is
StartsWithGreeting(transcript) ==
    LET words == SelectSeq(LowerText(transcript), LAMBDA tok : ~IsSpace(tok)) IN
    \/ Len(words) >= 1 /\ words[1] \in {"hi", "hello", "hey", "greetings"}
    \/ Len(words) >= 3 /\ SubSeq(words, 1, 3) = <<"my", "name", "is">>

AllOnes(out) ==
    /\ out.score = Num(1)
    /\ out.criteria = [technicalAccuracy |-> Num(1), completeness |-> Num(1),
                       clarity |-> Num(1), examples |-> Num(1)]

\* C8: for every question, tech stack and code, a transcript of fewer than
\* 20 words or one that starts with a greeting (hi, hello, hey, greetings,
\* my name is) gets score 1 and all four criteria 1.
C8_ShortOrGreetingScoresOne ==
    (evalOut.called /\ (\/ wordCount(evalIn.transcript) < 20
                        \/ StartsWithGreeting(evalIn.transcript)))
        => AllOnes(evalOut)

-----------------------------------------------------------------------------
(* Properties of the JSON extraction of evaluateAnswer *)

StripSpace(text) == SelectSeq(text, LAMBDA tok : ~IsSpace(tok))

\* the evaluation objects the model may answer with, and their JSON text
Evaluations ==
    [score : {8, 3}, feedback : {<<"prose">>}, criteria : {CriteriaMembers}]

Serialize(e) ==
    <<"{", (IF e.score = 8 THEN "sf8" ELSE "sf3"), "{", "cr", "}", "}">>

\* the request reached the model and a text came back
Generated == aiResp.called /\ aiReq.question /\ aiReq.answer /\ aiReq.key
                /\ aiReq.generated

\* C9: a generated text that is exactly a valid JSON evaluation object is
\* answered with that object's score, feedback and criteria; a text with no
\* JSON object, or with one that cannot be parsed, is answered with score 5,
\* all four criteria 5 and the raw text as feedback; neither is an error.
C9_ExtractionIdempotentAndTotal ==
    Generated =>
        /\ \A e \in Evaluations :
            StripSpace(aiReq.text) = Serialize(e)
                => (aiResp.code = 200 /\ aiResp.data = e)
        /\ (JsonMatch(aiReq.text) = <<>> \/ ~JSONParse(JsonMatch(aiReq.text)).ok)
                => /\ aiResp.code = 200
                   /\ aiResp.data.score = 5
                   /\ aiResp.data.feedback = aiReq.text
                   /\ \A c \in DOMAIN CriteriaMembers : aiResp.data.criteria[c] = 5

\* a valid evaluation object, written with white space, was returned as is
C9_Witness ==
    /\ Generated
    /\ aiReq.text = <<"{", "sf3", SP, "{", "cr", "}", "}">>
    /\ aiResp.data.score = 3

-----------------------------------------------------------------------------
(* Properties of the Interview page *)

\* the answer has a transcript or code
HasContent(a) == a.transcript # "" \/ a.code # ""

\* some Answer of question q, on the page, in interview.answers or on the
\* server, has a transcript or code
SomeAnswerHasContent(q) ==
    \/ \E i \in DOMAIN localAnswers :
            localAnswers[i].questionId = q /\ HasContent(localAnswers[i])
    \/ \E i \in DOMAIN interviewAnswers :
            interviewAnswers[i].questionId = q /\ HasContent(interviewAnswers[i])
    \/ \E i \in DOMAIN serverAnswers :
            serverAnswers[i].question = q /\ HasContent(serverAnswers[i])

\* C4: a question whose Answer has neither a non-empty transcript nor
\* non-empty code is not in answeredQuestions and not in the answered
\* questions of the stored progress.
C4_EmptyAnswerNotCounted ==
    \A q \in answeredQuestions \cup storedProgress.answeredQuestions :
        SomeAnswerHasContent(q)

RequestsOf(name) == SelectSeq(lastOp.requests, LAMBDA r : r.req = name)

\* the last operation was Save Response on a recorded answer, every upload
\* of it failed and every other request of it succeeded
SavedWithUploadsDown ==
    /\ lastOp.op = "handleSaveResponse"
    /\ ExistingAnswer(lastOp.question).audioBlob = "recording"
    /\ RequestsOf("upload") # <<>>
    /\ \A i \in DOMAIN lastOp.requests :
            lastOp.requests[i].ok = (lastOp.requests[i].req # "upload")

\* C5: when an answer is recorded and saved and every upload fails, the
\* request that creates the Answer is still sent (with an empty audioUrl),
\* and the candidate sees exactly one failure toast.
C5_CreateSentWhenUploadFails ==
    SavedWithUploadsDown
        => (Len(RequestsOf("create")) = 1 /\ Len(lastOp.toasts) = 1)

\* the question countdown and the grace countdown are both over
CountdownOver ==
    /\ timeRemaining = 0 /\ ~timerRef /\ ~autoSubmitRef
    /\ autoSubmitCountdown = 0 /\ Settled

\* C6: when the countdown of a question runs out and the candidate neither
\* recorded nor saved, then however the grace interval and the
\* autoSubmitCountdown effect interleave, the page ends not answering on the
\* same question, answeredQuestions and localAnswers are as they were, and
\* no upload, evaluation or create request was sent.
C6_ExpiryDoesNotSubmit ==
    /\ answeredQuestions = {} /\ localAnswers = <<>>
    /\ interviewAnswers = <<>> /\ serverAnswers = <<>>
    /\ lastOp.requests = <<>>
    /\ CountdownOver => (~isAnswering /\ currentQuestionIndex = 0)

\* the last operation was handleFinishInterview with local answers and the
\* batch request failed
FinishedWithBatchDown ==
    /\ lastOp.op = "handleFinishInterview"
    /\ Len(localAnswers) >= 1
    /\ \E i \in DOMAIN lastOp.requests :
            lastOp.requests[i].req = "batch" /\ ~lastOp.requests[i].ok

\* C7: when handleFinishInterview has N >= 1 local answers and the batch
\* request fails, it sends exactly N single create requests, one per local
\* answer and in their order, whether or not one of them fails.
C7_FallbackCreatesEveryAnswer ==
    FinishedWithBatchDown =>
        /\ Len(RequestsOf("create")) = Len(localAnswers)
        /\ \A i \in DOMAIN localAnswers :
                RequestsOf("create")[i].question = localAnswers[i].questionId

\* two local answers, the batch failed, the first single create failed and
\* the second was sent and got through
C7_Witness ==
    /\ FinishedWithBatchDown
    /\ Len(localAnswers) = 2
    /\ Len(RequestsOf("create")) = 2
    /\ ~RequestsOf("create")[1].ok
    /\ RequestsOf("create")[2].ok

\* C10: there is at most one Answer per question of the interview, on the
\* server and in the client's interview.answers, after saves, repeated
\* saves, auto-submits and finalization.
C10_OneAnswerPerQuestion ==
    /\ \A i, j \in DOMAIN serverAnswers :
            serverAnswers[i].question = serverAnswers[j].question => i = j
    /\ \A i, j \in DOMAIN interviewAnswers :
            interviewAnswers[i].questionId = interviewAnswers[j].questionId => i = j

-----------------------------------------------------------------------------
(* Properties of the answers routes *)

\* the documents of question q
DocsOf(answers, q) == SelectSeq(answers, LAMBDA d : d.question = q)

\* the last element of the batch for question q
LastFor(bodies, q) ==
    LET mine == SelectSeq(bodies, LAMBDA b : b.question = q) IN mine[Len(mine)]

\* C11: a batch creates one Answer for each question of it that has none
\* and updates the existing one otherwise, leaving every other Answer as it
\* was; submitting the same batch again changes nothing.
C11_BatchUpsertIdempotent ==
    [][answersResp'.called /\ answersResp'.op = "batch" =>
        LET bodies == answersResp'.body
            inBatch == {bodies[i].question : i \in DOMAIN bodies}
        IN  /\ \A q \in QuestionIds \ inBatch :
                    DocsOf(serverAnswers', q) = DocsOf(serverAnswers, q)
            /\ \A q \in inBatch :
                    /\ Len(DocsOf(serverAnswers', q))
                            = IF DocsOf(serverAnswers, q) = <<>> THEN 1
                              ELSE Len(DocsOf(serverAnswers, q))
                    /\ DocsOf(serverAnswers', q)[1].score = LastFor(bodies, q).score
            /\ PostBatch(bodies, serverAnswers') = serverAnswers'
      ]_vars

\* a batch for two questions updated the Answer of one and created the
\* Answer of the other
C11_Witness ==
    /\ answersResp.called /\ answersResp.op = "batch"
    /\ Len(answersResp.body) = 2
    /\ answersResp.body[1].question # answersResp.body[2].question
    /\ answersResp.before = 1
    /\ Len(serverAnswers) = 2

-----------------------------------------------------------------------------
(* Properties of the stored progress *)

\* C12: the stored progress survives a reload: when it is (i, S) as the
\* page is unloaded, then after the page has mounted again and the restore
\* has run, currentQuestionIndex = i and answeredQuestions = S.
C12_ProgressRoundTrip ==
    lastOp.op = "restoreProgress" =>
        /\ currentQuestionIndex = lastOp.unloaded.questionIndex
        /\ answeredQuestions = lastOp.unloaded.answeredQuestions

\* C13: the questionIndex of the stored progress never decreases, whatever
\* sequence of next, save, timer expiry and reload happens.
C13_StoredIndexMonotonic ==
    [][storedProgress'.questionIndex >= storedProgress.questionIndex]_vars

\* C14: within a session (every step but the reload, which starts a new
\* one) a question that is in answeredQuestions is still in it after the
\* step.
C14_AnsweredOnlyGrows ==
    [][questions' # <<>> => answeredQuestions \subseteq answeredQuestions']_vars

\* both questions were saved one after the other and both are answered
C14_Witness ==
    /\ lastOp.op = "handleSaveResponse"
    /\ Len(interviewAnswers) = 2
    /\ interviewAnswers[1].questionId # interviewAnswers[2].questionId
    /\ answeredQuestions = {interviewAnswers[1].questionId,
                            interviewAnswers[2].questionId}

-----------------------------------------------------------------------------
(* Properties of saving and leaving a question *)

\* the requests that upload, transcribe, score or persist an answer
AnswerRequests == {"upload", "transcribe", "evaluate", "create"}

\* C15: an answer is uploaded, scored or persisted only for a question the
\* candidate saved with Save Response; the end of a recording only stores
\* the recording in localAnswers and sends nothing.
C15_SavedOnlyBySaveResponse ==
    /\ lastOp.op = "onRecordingComplete" => lastOp.requests = <<>>
    /\ \A i \in DOMAIN lastOp.requests :
            lastOp.requests[i].req \in AnswerRequests
                => lastOp.requests[i].question \in answeredQuestions

\* C16: Next cancels the countdown and the grace timer, and a question left
\* without Save Response has no Answer: none is held for it when the
\* interview is finished and none reaches the server.
C16_UnsavedQuestionLeavesNoAnswer ==
    /\ lastOp.op = "handleNextQuestion" => (~timerRef /\ ~autoSubmitRef)
    /\ lastOp.op = "handleFinishInterview" =>
            /\ \A i \in DOMAIN localAnswers :
                    localAnswers[i].questionId \in answeredQuestions
            /\ \A i \in DOMAIN serverAnswers :
                    serverAnswers[i].question \in answeredQuestions

-----------------------------------------------------------------------------
(* Properties of the grace countdown *)

\* the effect's time-out decrements the countdown in a second in which the
\* grace interval has already decremented it
SecondDecrement ==
    /\ effectTimer = "due" /\ effectTimer' = "none"
    /\ autoSubmitCountdown' = autoSubmitCountdown - 1

\* C17: the grace countdown starts at 5 and loses exactly one per second:
\* the grace interval and the autoSubmitCountdown effect never both
\* decrement it for the same second, so answering ends after 5 ticks.
C17_GraceOnePerSecond == [][~SecondDecrement]_vars

-----------------------------------------------------------------------------
(* Properties of the finish flow *)

\* the positions of the requests with one of the names
PositionsOf(names) ==
    {i \in DOMAIN lastOp.requests : lastOp.requests[i].req \in names}

\* C18: handleFinishInterview asks for the completion of the interview only
\* after the batch has succeeded or, when it failed, after a single create
\* was attempted for every answer; no answer request follows it.
C18_EndAfterSubmission ==
    lastOp.op = "handleFinishInterview" =>
        \A e \in PositionsOf({"end"}) :
            /\ \A i \in PositionsOf({"upload", "evaluate", "batch", "create"}) : i < e
            /\ \/ localAnswers = <<>>
               \/ \E b \in PositionsOf({"batch"}) : lastOp.requests[b].ok
               \/ /\ \E b \in PositionsOf({"batch"}) : ~lastOp.requests[b].ok
                  /\ Cardinality(PositionsOf({"create"})) = Len(localAnswers)

\* the batch failed, the fallback tried both answers, then the interview
\* was completed
C18_Witness ==
    /\ lastOp.op = "handleFinishInterview"
    /\ Len(localAnswers) = 2
    /\ Cardinality(PositionsOf({"create"})) = 2
    /\ \E e \in PositionsOf({"end"}) : lastOp.requests[e].ok
    /\ status = "completed"

-----------------------------------------------------------------------------
(* Properties of one run of handleSaveResponse *)

\* C19: the upload and the evaluation are started without waiting for each
\* other (neither has settled while the other is still to be sent), and
\* saveAnswer is called only after both have settled, whether they
\* succeeded or failed.
C19_UploadAndEvaluationJoined ==
    saveRun.called =>
        /\ saveRun.upload \in {"ok", "failed"} => saveRun.evaluate # "unsent"
        /\ saveRun.evaluate \in {"ok", "failed"} => saveRun.upload # "unsent"
        /\ saveRun.save # "unsent" =>
            /\ saveRun.upload \in {"none", "ok", "failed"}
            /\ saveRun.evaluate \in {"none", "ok", "failed"}

\* both requests were in flight together, the upload failed, the
\* evaluation succeeded after it, and saveAnswer was called
C19_Witness ==
    /\ saveRun.called
    /\ saveRun.upload = "failed" /\ saveRun.evaluate = "ok"
    /\ saveRun.save = "pending"

-----------------------------------------------------------------------------
(* Properties of saveAnswer *)

\* C20: saveAnswer never throws to its caller: whatever fails
\* (transcription, evaluation, upload, persistence) and also when the
\* interview or the question is missing from local state, the call resolves
\* and one Answer is added to the interview's answers.
C20_SaveAnswerNeverThrows ==
    saveOut.called => (~saveOut.rejected /\ Len(saveOut.added) = 1)

\* the requests of the call with the name
SaveRequests(name) == SelectSeq(saveOut.requests, LAMBDA r : r.req = name)

\* the call had no transcript and the transcription failed or gave no text
TranscriptionGaveNothing ==
    /\ saveOut.called /\ ~saveOut.rejected
    /\ saveIn.transcript = ""
    /\ saveIn.net.transcribe \in {"none", "failed"}

\* C21: when saveAnswer has no transcript and the transcription fails or
\* returns no text, in free mode and in paid mode, the Answer's transcript
\* is the [TRANSCRIPTION FAILED] marker and the evaluation and the
\* persistence are still asked for with it.
C21_TranscriptionFailureGivesSentinel ==
    TranscriptionGaveNothing =>
        /\ saveOut.added[1].transcript = TranscriptionFailed
        /\ SaveRequests("evaluate") # <<>>
        /\ SaveRequests("upload") # <<>>

\* the upload or the create of the call failed
PersistFailed ==
    /\ saveOut.called /\ ~saveOut.rejected
    /\ ~(saveIn.net.upload /\ saveIn.net.create)

\* C23: when the upload or the create of saveAnswer fails, the assembled
\* Answer is still added to the interview's answers in local state, with
\* its transcript and its score, and the candidate is warned.
C23_LocalAnswerKeptWhenPersistFails ==
    PersistFailed =>
        /\ Len(saveOut.added) = 1
        /\ saveOut.added[1].transcript = finalTranscript(saveIn.transcript, saveIn.net)
        /\ saveOut.added[1].score \in {"eval", "mock"}
        /\ \E i \in DOMAIN saveOut.toasts :
                saveOut.toasts[i] = "Answer saved locally but failed to store on server"

\* the audio was uploaded, the create failed, and the evaluated Answer of
\* the spoken transcript is in local state
C23_Witness ==
    /\ PersistFailed
    /\ saveIn.net.upload /\ ~saveIn.net.create
    /\ Len(saveOut.added) = 1
    /\ saveOut.added[1].transcript = Spoken
    /\ saveOut.added[1].score = "eval"

-----------------------------------------------------------------------------
(* Properties of the evaluation fallback *)

\* the Cohere call of the request failed: no key, or no generation
PrimaryFailed ==
    aiResp.called /\ aiReq.question /\ aiReq.answer
        /\ (~aiReq.key \/ ~aiReq.generated)

\* C22: when the primary evaluation call fails, saveAnswer still ends with
\* a score, a feedback and criteria, and two evaluations of the same
\* request end with the same score.
C22_FallbackDeterministic ==
    PrimaryFailed =>
        /\ \A i \in DOMAIN evalRuns :
                evalRuns[i].feedback # "" /\ evalRuns[i].criteria # "undefined"
        /\ \A i, j \in DOMAIN evalRuns : evalRuns[i].score = evalRuns[j].score

-----------------------------------------------------------------------------
(* Properties of the AudioRecorder *)

\* C24: the microphone stream is released when the recording is stopped
\* and when the recorder is unmounted while it records: once every
\* getUserMedia call has resolved, no stream is live after a stop and none
\* is live after the unmount.
C24_MicrophoneReleased ==
    (~recorder.mounted \/ recorder.last = "stopRecording")
        => (recorder.pending = 0 => recorder.live = {})

-----------------------------------------------------------------------------
(* Properties of the AudioPlayer *)

\* C25: for one audioUrl the player tries the fallback URL by itself at
\* most once: a load error of the original URL puts the fallback URL in
\* currentUrl and shows no error, a load error after the fallback was
\* tried sets the error, and the error is left only by the reload action
\* or by a change of audioUrl.
C25_OneAutomaticFallback ==
    [][/\ player'.autoAttempts <= 1
       /\ player'.last = "handleError" /\ ~player.tried
            => /\ player'.currentUrl = getFallbackUrl(player.audioUrl)
               /\ player'.error = "null"
       /\ player'.last = "handleError" /\ player.tried
            => player'.error = "Failed to load audio file"
       /\ player.error # "null" /\ player'.error = "null"
            => player'.last \in {"handleReload", "audioUrlChanges"}
      ]_vars

\* the original URL and the fallback URL both failed to load, and the
\* error is shown
C25_Witness ==
    /\ player.mounted /\ player.last = "handleError"
    /\ player.loadErrors = 2 /\ player.autoAttempts = 1
    /\ player.currentUrl # player.audioUrl
    /\ player.error = "Failed to load audio file"

-----------------------------------------------------------------------------
(* Properties of the session after Save Response and after the finish *)

\* handleFinishInterview ran and every request of it succeeded, the
\* completion of the interview included
FinishedSuccessfully ==
    /\ lastOp.op = "handleFinishInterview"
    /\ \A i \in DOMAIN lastOp.requests : lastOp.requests[i].ok
    /\ status = "completed"

\* C26: after handleFinishInterview has submitted the answers and completed
\* the interview, storage holds no progress entry of the interview.
C26_ProgressClearedOnFinish ==
    FinishedSuccessfully => ~storedProgress.stored

\* a step in which the expiry of the countdown and the grace period submits
\* the question that Save Response saved last
ExpirySubmitsSavedQuestion ==
    /\ lastOp.op = "handleSaveResponse"
    /\ lastOp'.op = "handleRecordingComplete"
    /\ lastOp'.question = lastOp.question

\* C27: once a question was saved with Save Response, the expiry of its
\* countdown and grace period leaves its entry in localAnswers as it is and
\* sends no upload, evaluation or create request for it.
C27_ExpiryAfterSaveDoesNothing ==
    [][ExpirySubmitsSavedQuestion =>
        /\ SelectSeq(localAnswers', LAMBDA a : a.questionId = lastOp.question)
                = SelectSeq(localAnswers, LAMBDA a : a.questionId = lastOp.question)
        /\ \A i \in DOMAIN lastOp'.requests :
                lastOp'.requests[i].req \notin AnswerRequests
      ]_vars

-----------------------------------------------------------------------------
(* Authorization of the answers routes *)

\* the caller of the last call is neither the interview's candidate nor an
\* admin
CallerIsStranger(resp) ==
    resp.called /\ resp.caller # Candidate /\ RoleOf(resp.caller) # "admin"

\* C28: POST /answers, PUT /answers/:id and POST /answers/batch reject a
\* signed-in caller who is neither the candidate of the interview nor an
\* admin, and leave the stored Answers as they were.
C28_AnswersRejectStrangers ==
    [][CallerIsStranger(answersResp') /\ answersResp' # answersResp =>
        /\ answersResp'.code = 403
        /\ serverAnswers' = serverAnswers
      ]_vars

-----------------------------------------------------------------------------
(* What the finish does to the Answers the saves stored *)

\* the scores of an evaluated Answer: from the evaluation service or from
\* the backup evaluation, each with its feedback
EvaluatedScores == {"eval", "mock"}

\* the step is a run of handleFinishInterview
FinishStep == mounted /\ ~mounted' /\ lastOp'.op = "handleFinishInterview"

\* C29: the batch upsert of handleFinishInterview does not overwrite the
\* score and feedback of an Answer stored by a per-question save with the
\* unevaluated defaults (score 0, empty feedback), code-only answers
\* without transcript and recording included.
C29_FinishKeepsStoredEvaluation ==
    [][FinishStep =>
        \A i \in DOMAIN serverAnswers :
            serverAnswers[i].score \in EvaluatedScores
                => serverAnswers'[i].score # "0"
      ]_vars

-----------------------------------------------------------------------------
(* The order of the interview's statuses *)

\* C30: the status of an interview becomes completed only from in-progress,
\* that is after its start call was accepted; no call takes it from
\* scheduled to completed.
C30_CompletedOnlyAfterStart ==
    [][status' = "completed" /\ status # "completed" => status = "in-progress"]_vars

====
